---- MODULE Spec2Model ----
(***************************************************************************)
(* A model of the client port of lmstudio.js                               *)
(* (packages/lms-communication-client/src/ClientPort.ts): the four tables  *)
(* of in-flight communications, the ID counters, the open-communications   *)
(* count with its edge callbacks, the communication-warning cap, and the   *)
(* handlers of the inbound frames and of the transport error.              *)
(*                                                                         *)
(* The frames the port hands to transport.send are recorded in send order, *)
(* one list per ID space (calls and channels, signal subscriptions,        *)
(* writable signal subscriptions); the order of two frames of different ID *)
(* spaces is not recorded, and communicationWarning frames are counted.    *)
(* The edge callbacks are recorded in call order.  The promises of         *)
(* callRpc, the Channel objects and the signal objects are reduced to the  *)
(* list of invocations of the callbacks the port holds on them.            *)
(***************************************************************************)
EXTENDS Integers, Sequences, FiniteSets, TLC

\* ---------------------------------------------------------------- bounds
\* The environment of the port (its user and its server) is bounded; the
\* operations themselves carry no bound.
\* IDs drawn from the three counters, in total.
MaxIds == 2
\* IDs drawn from the counter of channels and RPCs, and from each counter of
\* subscriptions, where each counter has a bound of its own.
MaxChannelId == 2
MaxSubscribeId == 1
\* Signal objects createSignal, and createWritableSignal, return.
MaxSignals == 1
\* Transport errors one promise or channel has seen.
MaxTransportErrors == 1
\* Communications the server has ended, where it misbehaves without limit.
MaxEnded == 1
\* Frames the port has dropped with a warning.
MaxDrops == 1
\* Calls of setValue and errored the signals have seen, in total.
MaxUpdates == 3
\* Frames the writeUpstream closures have sent.
MaxWrites == 2
\* Calls the setters have made.
MaxSetterCalls == 1
\* Frames the channels have sent.
MaxSends == 2

\* ------------------------------------------------------- program constants
\* ClientPort.ts:126 and :140, the cap of communicationWarning.
MaxCommunicationWarnings == 5

\* ------------------------------------------------------------ input values
\* Payloads.  0 fails every schema; 2 passes, and the schemas that transform
\* their input normalise it to 1 (zod's parse returns parsed.data, which is
\* not the input in general).
Values == {0, 2}
InboundIds == 0 .. MaxIds
StackOptions == {"undefined"}
SerializedErrors == {"serializedError"}
TransportErrors == {"transportError"}
AckIds == {0}
NoStack == "undefined"

\* ------------------------------------------------------------------ schemas
\* A schema is a zod validator: safeParse either fails or yields data.
Schemas == {"positive", "normalizing"}

safeParse(schema, v) ==
  IF v = 0 THEN [success |-> FALSE, data |-> 0]
  ELSE IF schema = "normalizing" THEN [success |-> TRUE, data |-> 1]
  ELSE [success |-> TRUE, data |-> v]

\* ----------------------------------------------------------------- registry
\* The backend interface the port is constructed with: built with
\* addRpcEndpoint, addChannelEndpoint, addSignalEndpoint and
\* addWritableSignalEndpoint before the port exists, and only read by it.
\* The handler of an endpoint nobody has attached a handler to.
null == "null"

rpcEndpoints ==
  [name \in {"add"} |->
     [name |-> name, parameter |-> "normalizing", returns |-> "positive",
      handler |-> null]]

channelEndpoints ==
  [name \in {"chat"} |->
     [name |-> name, creationParameter |-> "normalizing",
      toServerPacket |-> "normalizing", toClientPacket |-> "normalizing",
      handler |-> null]]

signalEndpoints ==
  [name \in {"counter"} |->
     [name |-> name, creationParameter |-> "normalizing", signalData |-> "normalizing",
      handler |-> null]]

writableSignalEndpoints ==
  [name \in {"config"} |->
     [name |-> name, creationParameter |-> "normalizing", signalData |-> "positive"]]

\* The names a caller may pass: the registered ones and one that is not.
EndpointNames == {"add", "chat", "counter", "config", "missing"}

undefined == [name |-> "undefined"]

getRpcEndpoint(endpointName) ==
  IF endpointName \in DOMAIN rpcEndpoints THEN rpcEndpoints[endpointName] ELSE undefined

getChannelEndpoint(endpointName) ==
  IF endpointName \in DOMAIN channelEndpoints THEN channelEndpoints[endpointName] ELSE undefined

getSignalEndpoint(endpointName) ==
  IF endpointName \in DOMAIN signalEndpoints THEN signalEndpoints[endpointName] ELSE undefined

getWritableSignalEndpoint(endpointName) ==
  IF endpointName \in DOMAIN writableSignalEndpoints
  THEN writableSignalEndpoints[endpointName] ELSE undefined

\* ---------------------------------------------------------------- documents
\* The data of a signal: not available, or an object {n: ...}.
NotAvailable == [available |-> FALSE, n |-> 0]

Document(n) == [available |-> TRUE, n |-> n]

\* safeParse of the signalData schema on a document
safeParseDocument(schema, doc) ==
  IF ~doc.available THEN [success |-> FALSE, data |-> doc]
  ELSE LET parsed == safeParse(schema, doc.n)
       IN [success |-> parsed.success, data |-> Document(parsed.data)]

\* A patch {op: "replace", path, value}: path <<>> replaces the root by
\* {n: value}, path <<"n">> replaces the field n.
RootPatch(n) == [op |-> "replace", path |-> <<>>, value |-> n]
FieldPatch(n) == [op |-> "replace", path |-> <<"n">>, value |-> n]

PatchLists ==
  {<<>>, <<RootPatch(1)>>, <<RootPatch(0)>>, <<FieldPatch(2)>>,
   <<RootPatch(2), FieldPatch(1)>>}

TagLists == {<<>>, <<"tag">>}

RECURSIVE applyPatchesFrom(_, _, _)
\* immer's applyPatches from patch i on: a field patch needs an object to
\* write to, and throws on a base that is not one.
applyPatchesFrom(base, patches, i) ==
  IF i > Len(patches) THEN [threw |-> FALSE, value |-> base]
  ELSE IF patches[i].path = <<>>
       THEN applyPatchesFrom(Document(patches[i].value), patches, i + 1)
       ELSE IF ~base.available THEN [threw |-> TRUE, value |-> base]
            ELSE applyPatchesFrom([base EXCEPT !.n = patches[i].value], patches, i + 1)

applyPatches(base, patches) == applyPatchesFrom(base, patches, 1)

\* -------------------------------------------------------------------- state
VARIABLES
  openChannels,                         \* channelId -> OpenChannel
  ongoingRpcs,                          \* callId -> OngoingRpc
  openSignalSubscriptions,              \* subscribeId -> OpenSignalSubscription
  openWritableSignalSubscriptions,      \* subscribeId -> OpenWritableSignalSubscription
  openCommunicationsCount,
  nextChannelId,
  nextSubscribeId,
  nextWritableSubscribeId,
  producedCommunicationWarningsCount,
  verboseErrorMessage,
  backendInterface,                     \* the registry of endpoints
  sent,                                 \* ID space -> the frames given to transport.send
  sentWarnings,                         \* communicationWarning frames given to transport.send
  edges,                                \* the edge callbacks called on the transport
  sentBeforeEdge,                       \* for each of them, the frames sent before it
  loggerCalls,                          \* how often communicationWarning printed each of its lines
  suppressedAfter,                      \* for each suppression line, the warnings sent before it
  promises,                             \* callId -> calls of resolve and reject
  channels,                             \* channelId -> calls of the channel's sinks
  signals,                              \* the signals createSignal returned
  writableSignals,                      \* the signals createWritableSignal returned
  setterData,                           \* the value the update of a setter works on
  updateCalls,                          \* the calls of update the setters have made
  last                                  \* how the last operation or handler ended

vars ==
  <<openChannels, ongoingRpcs, openSignalSubscriptions, openWritableSignalSubscriptions,
    openCommunicationsCount, nextChannelId, nextSubscribeId, nextWritableSubscribeId,
    producedCommunicationWarningsCount, verboseErrorMessage, backendInterface, sent,
    sentWarnings, edges, sentBeforeEdge,
    loggerCalls, suppressedAfter, promises, channels, signals, writableSignals,
    setterData,
    updateCalls, last>>

tables ==
  <<openChannels, ongoingRpcs, openSignalSubscriptions, openWritableSignalSubscriptions>>

counters == <<nextChannelId, nextSubscribeId, nextWritableSubscribeId>>

warnings ==
  <<producedCommunicationWarningsCount, sentWarnings, loggerCalls, suppressedAfter>>

observers == <<promises, channels, signals, writableSignals>>

\* What the port is constructed with and never writes.
options == <<verboseErrorMessage, backendInterface>>

\* What the setters of a writable value act on.
setters == <<setterData, updateCalls>>

EmptyMap == [id \in {} |-> 0]

\* map.set(id, record)
MapSet(map, id, record) ==
  [k \in DOMAIN map \cup {id} |-> IF k = id THEN record ELSE map[k]]

\* map.delete(id)
MapDelete(map, id) == [k \in DOMAIN map \ {id} |-> map[k]]

\* ------------------------------------------------------------------- frames
Frame(type, endpoint, id, value) ==
  [type |-> type, endpoint |-> endpoint, id |-> id, value |-> value,
   patches |-> <<>>, tags |-> <<>>]

PatchFrame(type, id, patches, tags) ==
  [type |-> type, endpoint |-> "", id |-> id, value |-> 0,
   patches |-> patches, tags |-> tags]

\* transport.send(frame), for a frame of the given ID space
Send(space, frame) == [sent EXCEPT ![space] = Append(@, frame)]

\* the positions of the frames of a type in the ID space
Frames(space, type) ==
  {i \in 1 .. Len(sent[space]) : sent[space][i].type = type}

\* The frames with an ID given to transport.send so far.
TotalSent == Len(sent["channel"]) + Len(sent["signal"]) + Len(sent["writableSignal"])

NoError == [title |-> "", stack |-> ""]

SinkCall(sink, value, error) == [sink |-> sink, value |-> value, error |-> error]

SignalCall(sink, value, tags, error) ==
  [sink |-> sink, value |-> value, tags |-> tags, error |-> error]

\* ------------------------------------------------------------------- errors
getCurrentStack == "capturedStack"

\* defaultErrorDeserializer: the stack is replaced by the given one, or cleared
errorDeserializer(serialized, stack) ==
  [title |-> serialized, stack |-> IF stack = NoStack THEN "" ELSE stack]

\* the error the transport hands to errored
TransportError(error) == [title |-> error, stack |-> "transportStack"]

\* ---------------------------------------------------------------------- Init
\* The fields of the port as their initialisers leave them.
PortFields ==
  /\ openChannels = EmptyMap
  /\ ongoingRpcs = EmptyMap
  /\ openSignalSubscriptions = EmptyMap
  /\ openWritableSignalSubscriptions = EmptyMap
  /\ openCommunicationsCount = 0
  /\ nextChannelId = 0
  /\ nextSubscribeId = 0
  /\ nextWritableSubscribeId = 0
  /\ producedCommunicationWarningsCount = 0
  /\ sent = [space \in {"channel", "signal", "writableSignal"} |-> <<>>]
  /\ sentWarnings = 0
  /\ edges = <<>>
  /\ sentBeforeEdge = <<>>
  /\ loggerCalls = [warn |-> 0, error |-> 0]
  /\ suppressedAfter = <<>>
  /\ promises = EmptyMap
  /\ channels = EmptyMap
  /\ signals = <<>>
  /\ writableSignals = <<>>
  /\ last = "ok"

\* No setter has been made.
NoSetters ==
  /\ setterData = NotAvailable
  /\ updateCalls = <<>>

\* The backend interface with the endpoints of the registry added.
builtInterface ==
  [unhandledEndpoints |-> {},
   existingEndpointNames |->
     DOMAIN rpcEndpoints \cup DOMAIN channelEndpoints \cup DOMAIN signalEndpoints
       \cup DOMAIN writableSignalEndpoints,
   rpcEndpoints |-> rpcEndpoints,
   channelEndpoints |-> channelEndpoints,
   signalEndpoints |-> signalEndpoints]

\* The port as its constructor leaves it, constructed with default options.
Init ==
  /\ PortFields
  /\ NoSetters
  /\ verboseErrorMessage = FALSE
  /\ backendInterface = builtInterface

\* communicationWarning that keeps printing its warning line after the cap
communicationWarningLoggingOn ==
  IF producedCommunicationWarningsCount >= MaxCommunicationWarnings
  THEN /\ loggerCalls' = [loggerCalls EXCEPT !.warn = IF @ < 6 THEN @ + 1 ELSE @]
       /\ UNCHANGED <<producedCommunicationWarningsCount, sentWarnings, suppressedAfter>>
  ELSE /\ sentWarnings' = sentWarnings + 1
       /\ producedCommunicationWarningsCount' = producedCommunicationWarningsCount + 1
       /\ loggerCalls' =
            [loggerCalls EXCEPT
               !.warn = @ + 1,
               !.error = IF producedCommunicationWarningsCount + 1 >= MaxCommunicationWarnings
                         THEN @ + 1 ELSE @]
       /\ suppressedAfter' =
            IF producedCommunicationWarningsCount + 1 >= MaxCommunicationWarnings
            THEN Append(suppressedAfter, sentWarnings')
            ELSE suppressedAfter

\* ------------------------------------------------------ communicationWarning
\* communicationWarning with the cap tested one warning late
communicationWarningOffByOne ==
  IF producedCommunicationWarningsCount > MaxCommunicationWarnings
  THEN UNCHANGED warnings
  ELSE /\ sentWarnings' = sentWarnings + 1
       /\ producedCommunicationWarningsCount' = producedCommunicationWarningsCount + 1
       /\ loggerCalls' =
            [loggerCalls EXCEPT
               !.warn = @ + 1,
               !.error = IF producedCommunicationWarningsCount + 1 >= MaxCommunicationWarnings
                         THEN @ + 1 ELSE @]
       /\ suppressedAfter' =
            IF producedCommunicationWarningsCount + 1 >= MaxCommunicationWarnings
            THEN Append(suppressedAfter, sentWarnings')
            ELSE suppressedAfter

communicationWarning ==
  IF producedCommunicationWarningsCount >= MaxCommunicationWarnings
  THEN UNCHANGED warnings
  ELSE /\ sentWarnings' = sentWarnings + 1
       /\ producedCommunicationWarningsCount' = producedCommunicationWarningsCount + 1
       /\ loggerCalls' =
            [loggerCalls EXCEPT
               !.warn = @ + 1,
               !.error = IF producedCommunicationWarningsCount + 1 >= MaxCommunicationWarnings
                         THEN @ + 1 ELSE @]
       /\ suppressedAfter' =
            IF producedCommunicationWarningsCount + 1 >= MaxCommunicationWarnings
            THEN Append(suppressedAfter, sentWarnings')
            ELSE suppressedAfter

\* --------------------------------------------- updateOpenCommunicationsCount
\* updateOpenCommunicationsCount reporting every count of 1, whatever the
\* previous count
updateOpenCommunicationsCountAnyOne ==
  LET previousCount == openCommunicationsCount
      count == Cardinality(DOMAIN openChannels') + Cardinality(DOMAIN ongoingRpcs')
                 + Cardinality(DOMAIN openSignalSubscriptions')
                 + Cardinality(DOMAIN openWritableSignalSubscriptions')
  IN /\ openCommunicationsCount' = count
     /\ edges' =
          IF count = 0 /\ previousCount > 0
          THEN Append(edges, "onHavingNoOpenCommunication")
          ELSE IF count = 1
          THEN Append(edges, "onHavingOneOrMoreOpenCommunication")
          ELSE edges
     /\ sentBeforeEdge' =
          IF (count = 0 /\ previousCount > 0) \/ count = 1
          THEN Append(sentBeforeEdge, TotalSent')
          ELSE sentBeforeEdge

\* Reads the tables as the handler leaves them.
updateOpenCommunicationsCount ==
  LET previousCount == openCommunicationsCount
      count == Cardinality(DOMAIN openChannels') + Cardinality(DOMAIN ongoingRpcs')
                 + Cardinality(DOMAIN openSignalSubscriptions')
                 + Cardinality(DOMAIN openWritableSignalSubscriptions')
  IN /\ openCommunicationsCount' = count
     /\ edges' =
          IF count = 0 /\ previousCount > 0
          THEN Append(edges, "onHavingNoOpenCommunication")
          ELSE IF count = 1 /\ previousCount = 0
          THEN Append(edges, "onHavingOneOrMoreOpenCommunication")
          ELSE edges
     /\ sentBeforeEdge' =
          IF (count = 0 /\ previousCount > 0) \/ (count = 1 /\ previousCount = 0)
          THEN Append(sentBeforeEdge, TotalSent')
          ELSE sentBeforeEdge

\* A handler that warns and returns: it found its ID unknown ("unknown") or
\* its payload invalid ("invalid").
Dropped(outcome) ==
  /\ communicationWarning
  /\ last' = outcome
  /\ UNCHANGED <<tables, openCommunicationsCount, counters, options, setters,
                 sent, edges, sentBeforeEdge, observers>>

\* ------------------------------------------------------------------ channels
receivedChannelSend(channelId, message) ==
  IF channelId \notin DOMAIN openChannels
  THEN Dropped("unknown")
  ELSE LET parsed == safeParse(openChannels[channelId].endpoint.toClientPacket, message)
       IN IF ~parsed.success
          THEN Dropped("invalid")
          ELSE /\ channels' = [channels EXCEPT
                    ![channelId] = Append(@, SinkCall("receivedMessage", parsed.data, NoError))]
               /\ last' = "ok"
               /\ UNCHANGED <<tables, openCommunicationsCount, counters, warnings,
                              options, setters, sent, edges, sentBeforeEdge, promises, signals,
                              writableSignals>>

\* receivedChannelAck handing the ack to the channel ahead of what the
\* channel has received so far
receivedChannelAckAhead(channelId, ackId) ==
  IF channelId \notin DOMAIN openChannels
  THEN Dropped("unknown")
  ELSE /\ channels' = [channels EXCEPT
            ![channelId] = <<SinkCall("receivedAck", ackId, NoError)>> \o @]
       /\ last' = "ok"
       /\ UNCHANGED <<tables, openCommunicationsCount, counters, warnings,
                      options, setters, sent, edges, sentBeforeEdge, promises, signals,
                      writableSignals>>

receivedChannelAck(channelId, ackId) ==
  IF channelId \notin DOMAIN openChannels
  THEN Dropped("unknown")
  ELSE /\ channels' = [channels EXCEPT
            ![channelId] = Append(@, SinkCall("receivedAck", ackId, NoError))]
       /\ last' = "ok"
       /\ UNCHANGED <<tables, openCommunicationsCount, counters, warnings,
                      options, setters, sent, edges, sentBeforeEdge, promises, signals,
                      writableSignals>>

\* receivedChannelClose without the test for an unknown channel: the call on
\* the missing record throws to the transport
receivedChannelCloseUnchecked(channelId) ==
  IF channelId \notin DOMAIN openChannels
  THEN /\ last' = "raised"
       /\ UNCHANGED <<tables, openCommunicationsCount, counters, warnings,
                      options, setters, sent, edges, sentBeforeEdge, observers>>
  ELSE /\ openChannels' = MapDelete(openChannels, channelId)
       /\ channels' = [channels EXCEPT
            ![channelId] = Append(@, SinkCall("closed", 0, NoError))]
       /\ UNCHANGED <<ongoingRpcs, openSignalSubscriptions, openWritableSignalSubscriptions>>
       /\ last' = "ok"
       /\ UNCHANGED <<counters, warnings, options, setters, sent, promises, signals,
                      writableSignals>>
       /\ updateOpenCommunicationsCount

\* receivedChannelClose looking the ID up in ongoingRpcs when no channel has
\* it
receivedChannelCloseAnyTable(channelId) ==
  IF channelId \notin DOMAIN openChannels
  THEN IF channelId \notin DOMAIN ongoingRpcs
       THEN Dropped("unknown")
       ELSE /\ ongoingRpcs' = MapDelete(ongoingRpcs, channelId)
            /\ UNCHANGED <<openChannels, openSignalSubscriptions,
                           openWritableSignalSubscriptions>>
            /\ last' = "ok"
            /\ UNCHANGED <<counters, warnings, options, setters, sent, observers>>
            /\ updateOpenCommunicationsCount
  ELSE /\ openChannels' = MapDelete(openChannels, channelId)
       /\ channels' = [channels EXCEPT
            ![channelId] = Append(@, SinkCall("closed", 0, NoError))]
       /\ UNCHANGED <<ongoingRpcs, openSignalSubscriptions, openWritableSignalSubscriptions>>
       /\ last' = "ok"
       /\ UNCHANGED <<counters, warnings, options, setters, sent, promises, signals,
                      writableSignals>>
       /\ updateOpenCommunicationsCount

receivedChannelClose(channelId) ==
  IF channelId \notin DOMAIN openChannels
  THEN Dropped("unknown")
  ELSE /\ openChannels' = MapDelete(openChannels, channelId)
       /\ channels' = [channels EXCEPT
            ![channelId] = Append(@, SinkCall("closed", 0, NoError))]
       /\ UNCHANGED <<ongoingRpcs, openSignalSubscriptions, openWritableSignalSubscriptions>>
       /\ last' = "ok"
       /\ UNCHANGED <<counters, warnings, options, setters, sent, promises, signals,
                      writableSignals>>
       /\ updateOpenCommunicationsCount

receivedChannelError(channelId, serialized) ==
  IF channelId \notin DOMAIN openChannels
  THEN Dropped("unknown")
  ELSE LET openChannel == openChannels[channelId]
           error == errorDeserializer(serialized,
                      IF verboseErrorMessage THEN openChannel.stack ELSE NoStack)
       IN /\ openChannels' = MapDelete(openChannels, channelId)
          /\ channels' = [channels EXCEPT
               ![channelId] = Append(@, SinkCall("errored", 0, error))]
          /\ UNCHANGED <<ongoingRpcs, openSignalSubscriptions, openWritableSignalSubscriptions>>
          /\ last' = "ok"
          /\ UNCHANGED <<counters, warnings, options, setters, sent, promises, signals,
                         writableSignals>>
          /\ updateOpenCommunicationsCount

\* receivedRpcResult resolving with the result as received, without
\* returns.safeParse
receivedRpcResultUnvalidated(callId, result) ==
  IF callId \notin DOMAIN ongoingRpcs
  THEN Dropped("unknown")
  ELSE /\ promises' = [promises EXCEPT
            ![callId] = Append(@, SinkCall("resolve", result, NoError))]
       /\ ongoingRpcs' = MapDelete(ongoingRpcs, callId)
       /\ UNCHANGED <<openChannels, openSignalSubscriptions,
                      openWritableSignalSubscriptions>>
       /\ last' = "ok"
       /\ UNCHANGED <<counters, warnings, options, setters, sent, channels,
                      signals, writableSignals>>
       /\ updateOpenCommunicationsCount

\* receivedRpcResult deleting the record without a call of resolve
receivedRpcResultWithoutResolve(callId, result) ==
  IF callId \notin DOMAIN ongoingRpcs
  THEN Dropped("unknown")
  ELSE LET parsed == safeParse(ongoingRpcs[callId].endpoint.returns, result)
       IN IF ~parsed.success
          THEN Dropped("invalid")
          ELSE /\ ongoingRpcs' = MapDelete(ongoingRpcs, callId)
               /\ UNCHANGED <<openChannels, openSignalSubscriptions,
                              openWritableSignalSubscriptions>>
               /\ last' = "ok"
               /\ UNCHANGED <<counters, warnings, options, setters, sent, promises,
                              channels, signals, writableSignals>>
               /\ updateOpenCommunicationsCount

\* ---------------------------------------------------------------------- rpcs
receivedRpcResult(callId, result) ==
  IF callId \notin DOMAIN ongoingRpcs
  THEN Dropped("unknown")
  ELSE LET parsed == safeParse(ongoingRpcs[callId].endpoint.returns, result)
       IN IF ~parsed.success
          THEN Dropped("invalid")
          ELSE /\ promises' = [promises EXCEPT
                    ![callId] = Append(@, SinkCall("resolve", parsed.data, NoError))]
               /\ ongoingRpcs' = MapDelete(ongoingRpcs, callId)
               /\ UNCHANGED <<openChannels, openSignalSubscriptions,
                              openWritableSignalSubscriptions>>
               /\ last' = "ok"
               /\ UNCHANGED <<counters, warnings, options, setters, sent, channels,
                              signals, writableSignals>>
               /\ updateOpenCommunicationsCount

\* receivedRpcError without ongoingRpcs.delete
receivedRpcErrorKeepingRecord(callId, serialized) ==
  IF callId \notin DOMAIN ongoingRpcs
  THEN Dropped("unknown")
  ELSE LET ongoingRpc == ongoingRpcs[callId]
           error == errorDeserializer(serialized,
                      IF verboseErrorMessage THEN ongoingRpc.stack ELSE NoStack)
       IN /\ promises' = [promises EXCEPT
               ![callId] = Append(@, SinkCall("reject", 0, error))]
          /\ UNCHANGED tables
          /\ last' = "ok"
          /\ UNCHANGED <<counters, warnings, options, setters, sent, channels,
                         signals, writableSignals>>
          /\ updateOpenCommunicationsCount

\* receivedRpcError handing the recorded stack to the deserializer whether or
\* not verboseErrorMessage is set
receivedRpcErrorAlwaysVerbose(callId, serialized) ==
  IF callId \notin DOMAIN ongoingRpcs
  THEN Dropped("unknown")
  ELSE LET ongoingRpc == ongoingRpcs[callId]
           error == errorDeserializer(serialized, ongoingRpc.stack)
       IN /\ promises' = [promises EXCEPT
               ![callId] = Append(@, SinkCall("reject", 0, error))]
          /\ ongoingRpcs' = MapDelete(ongoingRpcs, callId)
          /\ UNCHANGED <<openChannels, openSignalSubscriptions,
                         openWritableSignalSubscriptions>>
          /\ last' = "ok"
          /\ UNCHANGED <<counters, warnings, options, setters, sent, channels,
                         signals, writableSignals>>
          /\ updateOpenCommunicationsCount

receivedRpcError(callId, serialized) ==
  IF callId \notin DOMAIN ongoingRpcs
  THEN Dropped("unknown")
  ELSE LET ongoingRpc == ongoingRpcs[callId]
           error == errorDeserializer(serialized,
                      IF verboseErrorMessage THEN ongoingRpc.stack ELSE NoStack)
       IN /\ promises' = [promises EXCEPT
               ![callId] = Append(@, SinkCall("reject", 0, error))]
          /\ ongoingRpcs' = MapDelete(ongoingRpcs, callId)
          /\ UNCHANGED <<openChannels, openSignalSubscriptions,
                         openWritableSignalSubscriptions>>
          /\ last' = "ok"
          /\ UNCHANGED <<counters, warnings, options, setters, sent, channels,
                         signals, writableSignals>>
          /\ updateOpenCommunicationsCount

\* ------------------------------------------------------------------- signals
receivedSignalUpdate(subscribeId, patches, tags) ==
  IF subscribeId \notin DOMAIN openSignalSubscriptions
  THEN Dropped("unknown")
  ELSE LET openSignalSubscription == openSignalSubscriptions[subscribeId]
           s == openSignalSubscription.signal
           afterValue == applyPatches(signals[s].value, patches)
           parseResult == safeParseDocument(openSignalSubscription.endpoint.signalData,
                                            afterValue.value)
       IN IF afterValue.threw
          THEN /\ last' = "raised"
               /\ UNCHANGED <<tables, openCommunicationsCount, counters, warnings,
                              options, setters, sent, edges, sentBeforeEdge, observers>>
          ELSE IF ~parseResult.success
          THEN Dropped("invalid")
          ELSE /\ signals' = [signals EXCEPT
                    ![s].value = parseResult.data,
                    ![s].calls = Append(@, SignalCall("setValue", parseResult.data,
                                                      tags, NoError))]
               /\ last' = "ok"
               /\ UNCHANGED <<tables, openCommunicationsCount, counters, warnings,
                              options, setters, sent, edges, sentBeforeEdge, promises, channels,
                              writableSignals>>

receivedSignalError(subscribeId, serialized) ==
  IF subscribeId \notin DOMAIN openSignalSubscriptions
  THEN Dropped("unknown")
  ELSE LET openSignalSubscription == openSignalSubscriptions[subscribeId]
           s == openSignalSubscription.signal
           error == errorDeserializer(serialized,
                      IF verboseErrorMessage THEN openSignalSubscription.stack ELSE NoStack)
       IN /\ signals' = [signals EXCEPT
               ![s].calls = Append(@, SignalCall("errored", NotAvailable, <<>>, error))]
          /\ openSignalSubscriptions' = MapDelete(openSignalSubscriptions, subscribeId)
          /\ UNCHANGED <<openChannels, ongoingRpcs, openWritableSignalSubscriptions>>
          /\ last' = "ok"
          /\ UNCHANGED <<counters, warnings, options, setters, sent, promises, channels,
                         writableSignals>>
          /\ updateOpenCommunicationsCount

receivedWritableSignalUpdate(subscribeId, patches, tags) ==
  IF subscribeId \notin DOMAIN openWritableSignalSubscriptions
  THEN Dropped("unknown")
  ELSE LET openSignalSubscription == openWritableSignalSubscriptions[subscribeId]
           s == openSignalSubscription.signal
           afterValue == applyPatches(writableSignals[s].value, patches)
           parseResult == safeParseDocument(openSignalSubscription.endpoint.signalData,
                                            afterValue.value)
       IN IF afterValue.threw
          THEN /\ last' = "raised"
               /\ UNCHANGED <<tables, openCommunicationsCount, counters, warnings,
                              options, setters, sent, edges, sentBeforeEdge, observers>>
          ELSE IF ~parseResult.success
          THEN Dropped("invalid")
          ELSE /\ writableSignals' = [writableSignals EXCEPT
                    ![s].value = parseResult.data,
                    ![s].calls = Append(@, SignalCall("setValue", parseResult.data,
                                                      tags, NoError))]
               /\ last' = "ok"
               /\ UNCHANGED <<tables, openCommunicationsCount, counters, warnings,
                              options, setters, sent, edges, sentBeforeEdge, promises, channels,
                              signals>>

\* receivedWritableSignalError without updateOpenCommunicationsCount
receivedWritableSignalErrorWithoutUpdate(subscribeId, serialized) ==
  IF subscribeId \notin DOMAIN openWritableSignalSubscriptions
  THEN Dropped("unknown")
  ELSE LET openSignalSubscription == openWritableSignalSubscriptions[subscribeId]
           s == openSignalSubscription.signal
           error == errorDeserializer(serialized,
                      IF verboseErrorMessage THEN openSignalSubscription.stack ELSE NoStack)
       IN /\ writableSignals' = [writableSignals EXCEPT
               ![s].calls = Append(@, SignalCall("errored", NotAvailable, <<>>, error))]
          /\ openWritableSignalSubscriptions' =
               MapDelete(openWritableSignalSubscriptions, subscribeId)
          /\ UNCHANGED <<openChannels, ongoingRpcs, openSignalSubscriptions>>
          /\ last' = "ok"
          /\ UNCHANGED <<openCommunicationsCount, edges, sentBeforeEdge, counters, warnings,
                         options, setters, sent, promises, channels, signals>>

receivedWritableSignalError(subscribeId, serialized) ==
  IF subscribeId \notin DOMAIN openWritableSignalSubscriptions
  THEN Dropped("unknown")
  ELSE LET openSignalSubscription == openWritableSignalSubscriptions[subscribeId]
           s == openSignalSubscription.signal
           error == errorDeserializer(serialized,
                      IF verboseErrorMessage THEN openSignalSubscription.stack ELSE NoStack)
       IN /\ writableSignals' = [writableSignals EXCEPT
               ![s].calls = Append(@, SignalCall("errored", NotAvailable, <<>>, error))]
          /\ openWritableSignalSubscriptions' =
               MapDelete(openWritableSignalSubscriptions, subscribeId)
          /\ UNCHANGED <<openChannels, ongoingRpcs, openSignalSubscriptions>>
          /\ last' = "ok"
          /\ UNCHANGED <<counters, warnings, options, setters, sent, promises, channels,
                         signals>>
          /\ updateOpenCommunicationsCount

\* ------------------------------------------------- warnings and keep-alive in
\* Logs the server's warning; that log line is not part of the state.
receivedCommunicationWarning ==
  /\ last' = "ignored"
  /\ UNCHANGED <<tables, openCommunicationsCount, counters, warnings,
                 options, setters, sent, edges, sentBeforeEdge, observers>>

\* receivedKeepAliveAck answering the ack with a keepAlive frame
receivedKeepAliveAckAnswered ==
  /\ sent' = Send("channel", Frame("keepAlive", "", 0, 0))
  /\ last' = "ignored"
  /\ UNCHANGED <<tables, openCommunicationsCount, counters, warnings,
                 options, setters, edges, sentBeforeEdge, observers>>

receivedKeepAliveAck ==
  /\ last' = "ignored"
  /\ UNCHANGED <<tables, openCommunicationsCount, counters, warnings,
                 options, setters, sent, edges, sentBeforeEdge, observers>>

\* ----------------------------------------------------------- transport error
\* errored without the loop over the open channels
erroredRpcsOnly(error) ==
  /\ promises' = [id \in DOMAIN promises |->
       IF id \in DOMAIN ongoingRpcs
       THEN Append(promises[id], SinkCall("reject", 0, TransportError(error)))
       ELSE promises[id]]
  /\ last' = "ok"
  /\ UNCHANGED <<tables, openCommunicationsCount, counters, warnings,
                 options, setters, sent, edges, sentBeforeEdge, channels, signals, writableSignals>>

\* errored with a third loop, over the open signal subscriptions
erroredWithSignals(error) ==
  /\ channels' = [id \in DOMAIN channels |->
       IF id \in DOMAIN openChannels
       THEN Append(channels[id], SinkCall("errored", 0, TransportError(error)))
       ELSE channels[id]]
  /\ promises' = [id \in DOMAIN promises |->
       IF id \in DOMAIN ongoingRpcs
       THEN Append(promises[id], SinkCall("reject", 0, TransportError(error)))
       ELSE promises[id]]
  /\ signals' = [s \in DOMAIN signals |->
       IF \E id \in DOMAIN openSignalSubscriptions : openSignalSubscriptions[id].signal = s
       THEN [signals[s] EXCEPT
               !.calls = Append(@, SignalCall("errored", NotAvailable, <<>>,
                                              TransportError(error)))]
       ELSE signals[s]]
  /\ last' = "ok"
  /\ UNCHANGED <<tables, openCommunicationsCount, counters, warnings,
                 options, setters, sent, edges, sentBeforeEdge, writableSignals>>

errored(error) ==
  /\ channels' = [id \in DOMAIN channels |->
       IF id \in DOMAIN openChannels
       THEN Append(channels[id], SinkCall("errored", 0, TransportError(error)))
       ELSE channels[id]]
  /\ promises' = [id \in DOMAIN promises |->
       IF id \in DOMAIN ongoingRpcs
       THEN Append(promises[id], SinkCall("reject", 0, TransportError(error)))
       ELSE promises[id]]
  /\ last' = "ok"
  /\ UNCHANGED <<tables, openCommunicationsCount, counters, warnings,
                 options, setters, sent, edges, sentBeforeEdge, signals, writableSignals>>

\* --------------------------------------------------------------- operations
\* An operation that threw to its caller before it touched the port.
Threw ==
  /\ last' = "threw"
  /\ UNCHANGED <<tables, openCommunicationsCount, counters, warnings,
                 options, setters, sent, edges, sentBeforeEdge, observers>>

\* callRpc sending the parameter as given instead of the parsed one
callRpcRawParameter(endpointName, param, stackOption) ==
  LET endpoint == getRpcEndpoint(endpointName) IN
  IF endpoint = undefined THEN Threw
  ELSE LET parsed == safeParse(endpoint.parameter, param) IN
       IF ~parsed.success THEN Threw
       ELSE LET callId == nextChannelId
                stack == IF stackOption = NoStack THEN getCurrentStack ELSE stackOption
            IN /\ nextChannelId' = nextChannelId + 1
               /\ promises' = MapSet(promises, callId, <<>>)
               /\ ongoingRpcs' = MapSet(ongoingRpcs, callId,
                                        [endpoint |-> endpoint, stack |-> stack])
               /\ sent' = Send("channel", Frame("rpcCall", endpointName, callId, param))
               /\ UNCHANGED <<openChannels, openSignalSubscriptions,
                              openWritableSignalSubscriptions>>
               /\ last' = "ok"
               /\ UNCHANGED <<nextSubscribeId, nextWritableSubscribeId, warnings,
                              options, setters, channels, signals, writableSignals>>
               /\ updateOpenCommunicationsCount

\* callRpc returning before the record of the call is in ongoingRpcs
callRpcWithoutRecord(endpointName, param, stackOption) ==
  LET endpoint == getRpcEndpoint(endpointName) IN
  IF endpoint = undefined THEN Threw
  ELSE LET parsed == safeParse(endpoint.parameter, param) IN
       IF ~parsed.success THEN Threw
       ELSE LET callId == nextChannelId
            IN /\ nextChannelId' = nextChannelId + 1
               /\ promises' = MapSet(promises, callId, <<>>)
               /\ sent' = Send("channel", Frame("rpcCall", endpointName, callId, parsed.data))
               /\ UNCHANGED tables
               /\ last' = "ok"
               /\ UNCHANGED <<nextSubscribeId, nextWritableSubscribeId, warnings,
                              options, setters, channels, signals, writableSignals>>
               /\ updateOpenCommunicationsCount

callRpc(endpointName, param, stackOption) ==
  LET endpoint == getRpcEndpoint(endpointName) IN
  IF endpoint = undefined THEN Threw
  ELSE LET parsed == safeParse(endpoint.parameter, param) IN
       IF ~parsed.success THEN Threw
       ELSE LET callId == nextChannelId
                stack == IF stackOption = NoStack THEN getCurrentStack ELSE stackOption
            IN /\ nextChannelId' = nextChannelId + 1
               /\ promises' = MapSet(promises, callId, <<>>)
               /\ ongoingRpcs' = MapSet(ongoingRpcs, callId,
                                        [endpoint |-> endpoint, stack |-> stack])
               /\ sent' = Send("channel", Frame("rpcCall", endpointName, callId, parsed.data))
               /\ UNCHANGED <<openChannels, openSignalSubscriptions,
                              openWritableSignalSubscriptions>>
               /\ last' = "ok"
               /\ UNCHANGED <<nextSubscribeId, nextWritableSubscribeId, warnings,
                              options, setters, channels, signals, writableSignals>>
               /\ updateOpenCommunicationsCount

\* createChannel numbering the channels by a count of their own
createChannelOwnCounter(endpointName, param, stackOption) ==
  LET channelEndpoint == getChannelEndpoint(endpointName) IN
  IF channelEndpoint = undefined THEN Threw
  ELSE LET parsed == safeParse(channelEndpoint.creationParameter, param) IN
       IF ~parsed.success THEN Threw
       ELSE LET channelId == Cardinality(DOMAIN channels)
                stack == IF stackOption = NoStack THEN getCurrentStack ELSE stackOption
            IN /\ nextChannelId' = nextChannelId + 1
               /\ sent' = Send("channel",
                               Frame("channelCreate", endpointName, channelId, parsed.data))
               /\ channels' = MapSet(channels, channelId, <<>>)
               /\ openChannels' = MapSet(openChannels, channelId,
                                         [endpoint |-> channelEndpoint, stack |-> stack])
               /\ UNCHANGED <<ongoingRpcs, openSignalSubscriptions,
                              openWritableSignalSubscriptions>>
               /\ last' = "ok"
               /\ UNCHANGED <<nextSubscribeId, nextWritableSubscribeId, warnings,
                              options, setters, promises, signals, writableSignals>>
               /\ updateOpenCommunicationsCount

createChannel(endpointName, param, stackOption) ==
  LET channelEndpoint == getChannelEndpoint(endpointName) IN
  IF channelEndpoint = undefined THEN Threw
  ELSE LET parsed == safeParse(channelEndpoint.creationParameter, param) IN
       IF ~parsed.success THEN Threw
       ELSE LET channelId == nextChannelId
                stack == IF stackOption = NoStack THEN getCurrentStack ELSE stackOption
            IN /\ nextChannelId' = nextChannelId + 1
               /\ sent' = Send("channel",
                               Frame("channelCreate", endpointName, channelId, parsed.data))
               /\ channels' = MapSet(channels, channelId, <<>>)
               /\ openChannels' = MapSet(openChannels, channelId,
                                         [endpoint |-> channelEndpoint, stack |-> stack])
               /\ UNCHANGED <<ongoingRpcs, openSignalSubscriptions,
                              openWritableSignalSubscriptions>>
               /\ last' = "ok"
               /\ UNCHANGED <<nextSubscribeId, nextWritableSubscribeId, warnings,
                              options, setters, promises, signals, writableSignals>>
               /\ updateOpenCommunicationsCount

\* The endpoint of the channel createChannel returned with channelId.
ChannelEndpointOf(channelId) ==
  getChannelEndpoint(
    sent["channel"][CHOOSE i \in Frames("channel", "channelCreate") :
                      sent["channel"][i].id = channelId].endpoint)

\* channel.send(packet) without toServerPacket.parse
channelSendUnvalidated(channelId, packet) ==
  /\ channelId \in DOMAIN channels
  /\ last' = "ok"
  /\ sent' = Send("channel", Frame("channelSend", "", channelId, packet))
  /\ UNCHANGED <<tables, openCommunicationsCount, counters, warnings,
                 options, setters, edges, sentBeforeEdge, observers>>

\* channel.send(packet): the sink createChannel gave to Channel.create
channelSend(channelId, packet) ==
  /\ channelId \in DOMAIN channels
  /\ LET result == safeParse(ChannelEndpointOf(channelId).toServerPacket, packet)
     IN IF ~result.success
        THEN /\ last' = "threw"
             /\ UNCHANGED sent
        ELSE /\ last' = "ok"
             /\ sent' = Send("channel", Frame("channelSend", "", channelId, result.data))
  /\ UNCHANGED <<tables, openCommunicationsCount, counters, warnings,
                 options, setters, edges, sentBeforeEdge, observers>>

\* The signal object createSignal and createWritableSignal hand to the user.
\* subscribeId is the ID of the upstream session while observers > 0;
\* currentSubscribeId is the variable of createWritableSignal (-1 for null).
SignalObject(endpoint, creationParameter, stack) ==
  [endpoint |-> endpoint, creationParameter |-> creationParameter, stack |-> stack,
   observers |-> 0, subscribeId |-> -1, currentSubscribeId |-> -1,
   value |-> NotAvailable, calls |-> <<>>]

\* createSignal passing on a creation parameter it did not validate
createSignalUnvalidated(endpointName, param, stackOption) ==
  LET signalEndpoint == getSignalEndpoint(endpointName) IN
  IF signalEndpoint = undefined THEN Threw
  ELSE LET stack == IF stackOption = NoStack THEN getCurrentStack ELSE stackOption
       IN /\ signals' = Append(signals, SignalObject(endpointName, param, stack))
          /\ last' = "ok"
          /\ UNCHANGED <<tables, openCommunicationsCount, counters, warnings,
                         options, setters, sent, edges, sentBeforeEdge, promises, channels,
                         writableSignals>>

createSignal(endpointName, param, stackOption) ==
  LET signalEndpoint == getSignalEndpoint(endpointName) IN
  IF signalEndpoint = undefined THEN Threw
  ELSE LET parsed == safeParse(signalEndpoint.creationParameter, param) IN
       IF ~parsed.success THEN Threw
       ELSE LET stack == IF stackOption = NoStack THEN getCurrentStack ELSE stackOption
            IN /\ signals' = Append(signals, SignalObject(endpointName, parsed.data, stack))
               /\ last' = "ok"
               /\ UNCHANGED <<tables, openCommunicationsCount, counters, warnings,
                              options, setters, sent, edges, sentBeforeEdge, promises, channels,
                              writableSignals>>

createWritableSignal(endpointName, param, stackOption) ==
  LET signalEndpoint == getWritableSignalEndpoint(endpointName) IN
  IF signalEndpoint = undefined THEN Threw
  ELSE LET parsed == safeParse(signalEndpoint.creationParameter, param) IN
       IF ~parsed.success THEN Threw
       ELSE LET stack == IF stackOption = NoStack THEN getCurrentStack ELSE stackOption
            IN /\ writableSignals' =
                    Append(writableSignals, SignalObject(endpointName, parsed.data, stack))
               /\ last' = "ok"
               /\ UNCHANGED <<tables, openCommunicationsCount, counters, warnings,
                              options, setters, sent, edges, sentBeforeEdge, promises, channels,
                              signals>>

\* The subscribeUpstream callback createSignal gives to the lazy signal s,
\* called when the first observer attaches.
signalSubscribeUpstream(s) ==
  LET subscribeId == nextSubscribeId IN
  /\ nextSubscribeId' = nextSubscribeId + 1
  /\ sent' = Send("signal", Frame("signalSubscribe", signals[s].endpoint, subscribeId,
                                  signals[s].creationParameter))
  /\ openSignalSubscriptions' =
       MapSet(openSignalSubscriptions, subscribeId,
              [endpoint |-> getSignalEndpoint(signals[s].endpoint), signal |-> s,
               stack |-> signals[s].stack])
  /\ signals' = [signals EXCEPT ![s].observers = 1, ![s].subscribeId = subscribeId]
  /\ UNCHANGED <<openChannels, ongoingRpcs, openWritableSignalSubscriptions>>
  /\ last' = "ok"
  /\ UNCHANGED <<nextChannelId, nextWritableSubscribeId, warnings, options, setters,
                 promises, channels, writableSignals>>
  /\ updateOpenCommunicationsCount

\* The teardown signalSubscribeUpstream returned, called when the last
\* observer detaches.
signalTeardown(s) ==
  /\ sent' = Send("signal", Frame("signalUnsubscribe", "", signals[s].subscribeId, 0))
  /\ signals' = [signals EXCEPT ![s].observers = 0, ![s].subscribeId = -1]
  /\ last' = "ok"
  /\ UNCHANGED <<tables, openCommunicationsCount, counters, warnings, options, setters,
                 edges, sentBeforeEdge, promises, channels, writableSignals>>

\* The first observer attaches to the lazy signal s; further observers do
\* not reach the port.
signalSubscribe(s) ==
  /\ s \in DOMAIN signals
  /\ signals[s].observers = 0
  /\ signalSubscribeUpstream(s)

\* The last observer detaches from the lazy signal s.
signalUnsubscribe(s) ==
  /\ s \in DOMAIN signals
  /\ signals[s].observers > 0
  /\ signalTeardown(s)

\* writableSignalSubscribeUpstream reading nextWritableSubscribeId without
\* incrementing it
writableSignalSubscribeUpstreamSameId(s) ==
  LET subscribeId == nextWritableSubscribeId IN
  /\ sent' = Send("writableSignal",
                  Frame("writableSignalSubscribe", writableSignals[s].endpoint, subscribeId,
                        writableSignals[s].creationParameter))
  /\ openWritableSignalSubscriptions' =
       MapSet(openWritableSignalSubscriptions, subscribeId,
              [endpoint |-> getWritableSignalEndpoint(writableSignals[s].endpoint),
               signal |-> s, stack |-> writableSignals[s].stack])
  /\ writableSignals' = [writableSignals EXCEPT
       ![s].observers = 1, ![s].subscribeId = subscribeId,
       ![s].currentSubscribeId = subscribeId]
  /\ UNCHANGED <<openChannels, ongoingRpcs, openSignalSubscriptions>>
  /\ last' = "ok"
  /\ UNCHANGED <<counters, warnings, options, setters, promises, channels, signals>>
  /\ updateOpenCommunicationsCount

\* The subscribeUpstream callback createWritableSignal gives to the signal s.
writableSignalSubscribeUpstream(s) ==
  LET subscribeId == nextWritableSubscribeId IN
  /\ nextWritableSubscribeId' = nextWritableSubscribeId + 1
  /\ sent' = Send("writableSignal",
                  Frame("writableSignalSubscribe", writableSignals[s].endpoint, subscribeId,
                        writableSignals[s].creationParameter))
  /\ openWritableSignalSubscriptions' =
       MapSet(openWritableSignalSubscriptions, subscribeId,
              [endpoint |-> getWritableSignalEndpoint(writableSignals[s].endpoint),
               signal |-> s, stack |-> writableSignals[s].stack])
  /\ writableSignals' = [writableSignals EXCEPT
       ![s].observers = 1, ![s].subscribeId = subscribeId,
       ![s].currentSubscribeId = subscribeId]
  /\ UNCHANGED <<openChannels, ongoingRpcs, openSignalSubscriptions>>
  /\ last' = "ok"
  /\ UNCHANGED <<nextChannelId, nextSubscribeId, warnings, options, setters,
                 promises, channels, signals>>
  /\ updateOpenCommunicationsCount

\* writableSignalTeardown leaving currentSubscribeId as it is
writableSignalTeardownKeepingId(s) ==
  /\ sent' = Send("writableSignal",
                  Frame("writableSignalUnsubscribe", "", writableSignals[s].subscribeId, 0))
  /\ writableSignals' = [writableSignals EXCEPT
       ![s].observers = 0, ![s].subscribeId = -1]
  /\ last' = "ok"
  /\ UNCHANGED <<tables, openCommunicationsCount, counters, warnings, options, setters,
                 edges, sentBeforeEdge, promises, channels, signals>>

\* The teardown writableSignalSubscribeUpstream returned.
writableSignalTeardown(s) ==
  /\ sent' = Send("writableSignal",
                  Frame("writableSignalUnsubscribe", "", writableSignals[s].subscribeId, 0))
  /\ writableSignals' = [writableSignals EXCEPT
       ![s].observers = 0, ![s].subscribeId = -1, ![s].currentSubscribeId = -1]
  /\ last' = "ok"
  /\ UNCHANGED <<tables, openCommunicationsCount, counters, warnings, options, setters,
                 edges, sentBeforeEdge, promises, channels, signals>>

\* The first observer attaches to the writable signal s.
writableSignalSubscribe(s) ==
  /\ s \in DOMAIN writableSignals
  /\ writableSignals[s].observers = 0
  /\ writableSignalSubscribeUpstream(s)

\* The last observer detaches from the writable signal s.
writableSignalUnsubscribe(s) ==
  /\ s \in DOMAIN writableSignals
  /\ writableSignals[s].observers > 0
  /\ writableSignalTeardown(s)

\* The writeUpstream closure of the writable signal s.
writeUpstream(s, patches, tags) ==
  /\ s \in DOMAIN writableSignals
  /\ IF writableSignals[s].currentSubscribeId = -1
     THEN /\ last' = "threw"
          /\ UNCHANGED sent
     ELSE /\ last' = "ok"
          /\ sent' = Send("writableSignal",
                          PatchFrame("writableSignalUpdate",
                                     writableSignals[s].currentSubscribeId, patches, tags))
  /\ UNCHANGED <<tables, openCommunicationsCount, counters, warnings,
                 options, setters, edges, sentBeforeEdge, observers>>

\* --------------------------------------------------------- backend interface
\* new BackendInterface()
emptyInterface ==
  [unhandledEndpoints |-> {},
   existingEndpointNames |-> {},
   rpcEndpoints |-> EmptyMap,
   channelEndpoints |-> EmptyMap,
   signalEndpoints |-> EmptyMap]

\* assertEndpointNameNotExists returns without throwing
assertEndpointNameNotExists(endpointName) ==
  endpointName \notin backendInterface.existingEndpointNames

addRpcEndpoint(endpointName, parameter, returns) ==
  IF ~assertEndpointNameNotExists(endpointName) THEN Threw
  ELSE /\ backendInterface' =
            [backendInterface EXCEPT
               !.existingEndpointNames = @ \cup {endpointName},
               !.rpcEndpoints =
                  MapSet(@, endpointName,
                         [name |-> endpointName, parameter |-> parameter,
                          returns |-> returns, handler |-> null])]
       /\ last' = "ok"
       /\ UNCHANGED <<tables, openCommunicationsCount, counters, warnings,
                      verboseErrorMessage, setters, sent, edges, sentBeforeEdge, observers>>

\* addChannelEndpoint without assertEndpointNameNotExists
addChannelEndpointUnchecked(endpointName, creationParameter, toServerPacket, toClientPacket) ==
  /\ backendInterface' =
       [backendInterface EXCEPT
          !.existingEndpointNames = @ \cup {endpointName},
          !.channelEndpoints =
             MapSet(@, endpointName,
                    [name |-> endpointName, creationParameter |-> creationParameter,
                     toServerPacket |-> toServerPacket,
                     toClientPacket |-> toClientPacket, handler |-> null])]
  /\ last' = "ok"
  /\ UNCHANGED <<tables, openCommunicationsCount, counters, warnings,
                 verboseErrorMessage, setters, sent, edges, sentBeforeEdge, observers>>

addChannelEndpoint(endpointName, creationParameter, toServerPacket, toClientPacket) ==
  IF ~assertEndpointNameNotExists(endpointName) THEN Threw
  ELSE /\ backendInterface' =
            [backendInterface EXCEPT
               !.existingEndpointNames = @ \cup {endpointName},
               !.channelEndpoints =
                  MapSet(@, endpointName,
                         [name |-> endpointName, creationParameter |-> creationParameter,
                          toServerPacket |-> toServerPacket,
                          toClientPacket |-> toClientPacket, handler |-> null])]
       /\ last' = "ok"
       /\ UNCHANGED <<tables, openCommunicationsCount, counters, warnings,
                      verboseErrorMessage, setters, sent, edges, sentBeforeEdge, observers>>

addSignalEndpoint(endpointName, creationParameter, signalData) ==
  IF ~assertEndpointNameNotExists(endpointName) THEN Threw
  ELSE /\ backendInterface' =
            [backendInterface EXCEPT
               !.existingEndpointNames = @ \cup {endpointName},
               !.signalEndpoints =
                  MapSet(@, endpointName,
                         [name |-> endpointName, creationParameter |-> creationParameter,
                          signalData |-> signalData, handler |-> null])]
       /\ last' = "ok"
       /\ UNCHANGED <<tables, openCommunicationsCount, counters, warnings,
                      verboseErrorMessage, setters, sent, edges, sentBeforeEdge, observers>>

handleRpcEndpoint(endpointName, handler) ==
  IF endpointName \notin DOMAIN backendInterface.rpcEndpoints THEN Threw
  ELSE IF backendInterface.rpcEndpoints[endpointName].handler # null THEN Threw
  ELSE /\ backendInterface' =
            [backendInterface EXCEPT
               !.rpcEndpoints[endpointName].handler = handler,
               !.unhandledEndpoints = @ \ {endpointName}]
       /\ last' = "ok"
       /\ UNCHANGED <<tables, openCommunicationsCount, counters, warnings,
                      verboseErrorMessage, setters, sent, edges, sentBeforeEdge, observers>>

handleChannelEndpoint(endpointName, handler) ==
  IF endpointName \notin DOMAIN backendInterface.channelEndpoints THEN Threw
  ELSE IF backendInterface.channelEndpoints[endpointName].handler # null THEN Threw
  ELSE /\ backendInterface' =
            [backendInterface EXCEPT
               !.channelEndpoints[endpointName].handler = handler,
               !.unhandledEndpoints = @ \ {endpointName}]
       /\ last' = "ok"
       /\ UNCHANGED <<tables, openCommunicationsCount, counters, warnings,
                      verboseErrorMessage, setters, sent, edges, sentBeforeEdge, observers>>

handleSignalEndpoint(endpointName, handler) ==
  IF endpointName \notin DOMAIN backendInterface.signalEndpoints THEN Threw
  ELSE IF backendInterface.signalEndpoints[endpointName].handler # null THEN Threw
  ELSE /\ backendInterface' =
            [backendInterface EXCEPT
               !.signalEndpoints[endpointName].handler = handler,
               !.unhandledEndpoints = @ \ {endpointName}]
       /\ last' = "ok"
       /\ UNCHANGED <<tables, openCommunicationsCount, counters, warnings,
                      verboseErrorMessage, setters, sent, edges, sentBeforeEdge, observers>>

\* Throws when unhandledEndpoints holds a name.
assertAllEndpointsHandled ==
  IF backendInterface.unhandledEndpoints # {} THEN Threw
  ELSE /\ last' = "ok"
       /\ UNCHANGED <<tables, openCommunicationsCount, counters, warnings,
                      options, setters, sent, edges, sentBeforeEdge, observers>>

\* -------------------------------------------------------------------- setters
\* An optional argument: <<>> when it is undefined, <<x>> when it is x.
Absent == <<>>

Given(x) == <<x>>

\* {}: an object without the field n.
EmptyObject == [available |-> TRUE, n |-> -1]

RECURSIVE cwt(_)
\* cwt: the tag lists that are not undefined, concatenated in their order
cwt(allTags) ==
  IF allTags = <<>> THEN <<>>
  ELSE (IF Head(allTags) = Absent THEN <<>> ELSE Head(allTags)[1]) \o cwt(Tail(allTags))

\* cwt with the accumulator on the right of each list
cwtReversed(prependTags, tags) ==
  (IF tags = Absent THEN <<>> ELSE tags[1])
    \o (IF prependTags = Absent THEN <<>> ELSE prependTags[1])

\* cwt(prependTagsFn?.(), tags)
concatenated(prependTags, tags) == cwt(<<prependTags, tags>>)

\* makeRootReplacingPatches with the path of the field n
makeFieldReplacingPatches(value) == <<FieldPatch(value.n)>>

makeRootReplacingPatches(value) == <<RootPatch(value.n)>>

\* What an updater handed to update returns, or that it threw.
Returned(newData, patches) == [threw |-> FALSE, newData |-> newData, patches |-> patches]

Thrown == [threw |-> TRUE, newData |-> NotAvailable, patches |-> <<>>]

\* The functions a user passes to withUpdater; they return documents.
Updaters == {"reset", "next"}

applyUpdater(updater, oldData) ==
  IF updater = "reset" \/ ~oldData.available THEN Document(1)
  ELSE Document((oldData.n + 1) % 3)

\* A function a user passes to withImmer does nothing, assigns the field n
\* of the draft, or returns a new value.
\* immer's produceWithPatches: the patches record the assignments that
\* changed the draft, or the replacement of the root by what the producer
\* returned; a value that is no object cannot be assigned to.
produceWithPatches(oldData, producer) ==
  CASE producer.does = "nothing" -> Returned(oldData, <<>>)
    [] producer.does = "return" -> Returned(Document(producer.n), <<RootPatch(producer.n)>>)
    [] producer.does = "assign" ->
         IF ~oldData.available THEN Thrown
         ELSE IF oldData.n = producer.n THEN Returned(oldData, <<>>)
         ELSE Returned([oldData EXCEPT !.n = producer.n], <<FieldPatch(producer.n)>>)

\* const newData = { ...oldData }; producer(newData); return newData
copyAndProduce(oldData, producer) ==
  LET newData == IF oldData.available THEN oldData ELSE EmptyObject IN
  IF producer.does = "assign" THEN [newData EXCEPT !.n = producer.n] ELSE newData

\* applyPatches(oldData, patches) in an updater
patched(oldData, patches) ==
  LET applied == applyPatches(oldData, patches) IN
  IF applied.threw THEN Thrown ELSE Returned(applied.value, patches)

\* The update a setter is made with, called with an updater and what the
\* setter passes as its second argument: it runs the updater on the value
\* it holds and keeps the new value.
callUpdate(made, flavour, result, tags) ==
  /\ updateCalls' = Append(updateCalls,
                           [made |-> made, flavour |-> flavour, tags |-> tags,
                            oldData |-> setterData, result |-> result])
  /\ setterData' = IF result.threw THEN setterData ELSE result.newData
  /\ UNCHANGED <<tables, openCommunicationsCount, counters, warnings, options,
                 sent, edges, sentBeforeEdge, observers, last>>

\* ---- makeSetter of OWLSignal.ts
makeSetter_set(prependTags, value, tags) ==
  callUpdate("makeSetter", "set", Returned(value, <<>>), concatenated(prependTags, tags))

makeSetter_withImmer(prependTags, producer, tags) ==
  callUpdate("makeSetter", "withImmer", Returned(copyAndProduce(setterData, producer), <<>>),
         concatenated(prependTags, tags))

makeSetter_withUpdater(prependTags, updater, tags) ==
  callUpdate("makeSetter", "withUpdater", Returned(applyUpdater(updater, setterData), <<>>),
         concatenated(prependTags, tags))

makeSetter_withPatches(prependTags, patches, tags) ==
  LET applied == applyPatches(setterData, patches) IN
  callUpdate("makeSetter", "withPatches",
         IF applied.threw THEN Thrown ELSE Returned(applied.value, <<>>),
         concatenated(prependTags, tags))

\* ---- makeSetterWithPatches of OWLSignal.ts
makeSetterWithPatches_set(prependTags, value, tags) ==
  callUpdate("makeSetterWithPatches", "set",
         Returned(value, makeRootReplacingPatches(value)),
         concatenated(prependTags, tags))

makeSetterWithPatches_withImmer(prependTags, producer, tags) ==
  callUpdate("makeSetterWithPatches", "withImmer", produceWithPatches(setterData, producer),
         concatenated(prependTags, tags))

makeSetterWithPatches_withUpdater(prependTags, updater, tags) ==
  LET newData == applyUpdater(updater, setterData) IN
  callUpdate("makeSetterWithPatches", "withUpdater",
         Returned(newData, makeRootReplacingPatches(newData)),
         concatenated(prependTags, tags))

makeSetterWithPatches_withPatches(prependTags, patches, tags) ==
  callUpdate("makeSetterWithPatches", "withPatches", patched(setterData, patches),
         concatenated(prependTags, tags))

\* ---- makeSetterWithPatches of makeSetter.ts, which passes on one optional
\* tag as it got it
tagSetter_set(value, tag) ==
  callUpdate("makeSetter.ts", "set", Returned(value, makeRootReplacingPatches(value)), tag)

tagSetter_withImmer(producer, tag) ==
  callUpdate("makeSetter.ts", "withImmer", produceWithPatches(setterData, producer), tag)

tagSetter_withUpdater(updater, tag) ==
  LET newData == applyUpdater(updater, setterData) IN
  callUpdate("makeSetter.ts", "withUpdater",
         Returned(newData, makeRootReplacingPatches(newData)), tag)

tagSetter_withPatches(patches, tag) ==
  callUpdate("makeSetter.ts", "withPatches", patched(setterData, patches), tag)

\* -------------------------------------------------------------- environment
\* What the user and the server have done so far, to bound them.
TransportErrorsIn(calls) ==
  Cardinality({i \in 1 .. Len(calls) : calls[i].error.title \in TransportErrors})

\* The communications the server has ended.
Ended ==
  nextChannelId + nextSubscribeId + nextWritableSubscribeId
    - (Cardinality(DOMAIN openChannels) + Cardinality(DOMAIN ongoingRpcs)
         + Cardinality(DOMAIN openSignalSubscriptions)
         + Cardinality(DOMAIN openWritableSignalSubscriptions))

Bounded ==
  /\ nextChannelId + nextSubscribeId + nextWritableSubscribeId <= MaxIds
  /\ Len(signals) <= MaxSignals
  /\ Len(writableSignals) <= MaxSignals
  /\ \A id \in DOMAIN promises : TransportErrorsIn(promises[id]) <= MaxTransportErrors
  /\ \A id \in DOMAIN channels : TransportErrorsIn(channels[id]) <= MaxTransportErrors

FewEnded == Ended <= MaxEnded

IsDropped == last \in {"unknown", "invalid"}

\* An operation or handler that ran to its end.
Completes == last = "ok"

SignalIndexes == 1 .. MaxSignals

\* ---------------------------------------------------------------------- Next
\* A user and a server that make no mistake, with all four kinds of
\* communication through their life cycle: every operation that opens one,
\* every frame that ends one.
Next ==
  \/ \E name \in EndpointNames, param \in Values, stack \in StackOptions :
       callRpc(name, param, stack) /\ Completes' /\ Bounded'
  \/ \E name \in EndpointNames, param \in Values, stack \in StackOptions :
       createChannel(name, param, stack) /\ Completes' /\ Bounded'
  \/ \E name \in EndpointNames, param \in Values, stack \in StackOptions :
       createSignal(name, param, stack) /\ Completes' /\ Bounded'
  \/ \E name \in EndpointNames, param \in Values, stack \in StackOptions :
       createWritableSignal(name, param, stack) /\ Completes' /\ Bounded'
  \/ \E s \in SignalIndexes : signalSubscribe(s) /\ Bounded'
  \/ \E s \in SignalIndexes : signalUnsubscribe(s)
  \/ \E s \in SignalIndexes : writableSignalSubscribe(s) /\ Bounded'
  \/ \E s \in SignalIndexes : writableSignalUnsubscribe(s)
  \/ \E id \in InboundIds : receivedChannelClose(id) /\ Completes'
  \/ \E id \in InboundIds, error \in SerializedErrors :
       receivedChannelError(id, error) /\ Completes'
  \/ \E id \in InboundIds, result \in Values :
       receivedRpcResult(id, result) /\ Completes'
  \/ \E id \in InboundIds, error \in SerializedErrors :
       receivedRpcError(id, error) /\ Completes'
  \/ \E id \in InboundIds, error \in SerializedErrors :
       receivedSignalError(id, error) /\ Completes'
  \/ \E id \in InboundIds, error \in SerializedErrors :
       receivedWritableSignalError(id, error) /\ Completes'

Spec == Init /\ [][Next]_vars

\* The same with a server that also answers a call in flight with a result
\* its returns schema rejects.
NextResults ==
  \/ Next
  \/ \E id \in DOMAIN ongoingRpcs, result \in Values :
       receivedRpcResult(id, result) /\ IsDropped'

SpecResults == Init /\ [][NextResults]_vars

\* The first specification with a bound on each counter of its own, and a server that ends
\* communications without an error.
BoundedIds ==
  /\ nextChannelId <= MaxChannelId
  /\ nextSubscribeId <= MaxSubscribeId
  /\ nextWritableSubscribeId <= MaxSubscribeId
  /\ Len(signals) <= MaxSignals
  /\ Len(writableSignals) <= MaxSignals

NextIds ==
  \/ \E name \in EndpointNames, param \in Values, stack \in StackOptions :
       callRpc(name, param, stack) /\ Completes' /\ BoundedIds'
  \/ \E name \in EndpointNames, param \in Values, stack \in StackOptions :
       createChannel(name, param, stack) /\ Completes' /\ BoundedIds'
  \/ \E name \in EndpointNames, param \in Values, stack \in StackOptions :
       createSignal(name, param, stack) /\ Completes' /\ BoundedIds'
  \/ \E name \in EndpointNames, param \in Values, stack \in StackOptions :
       createWritableSignal(name, param, stack) /\ Completes' /\ BoundedIds'
  \/ \E s \in SignalIndexes : signalSubscribe(s) /\ BoundedIds'
  \/ \E s \in SignalIndexes : signalUnsubscribe(s)
  \/ \E s \in SignalIndexes : writableSignalSubscribe(s) /\ BoundedIds'
  \/ \E s \in SignalIndexes : writableSignalUnsubscribe(s)
  \/ \E id \in InboundIds : receivedChannelClose(id) /\ Completes'
  \/ \E id \in InboundIds, result \in Values :
       receivedRpcResult(id, result) /\ Completes'

SpecIds == Init /\ [][NextIds]_vars

\* The first specification on a transport that may fail.
RECURSIVE TransportErrorsOf(_, _)
\* The transport errors the sinks of the IDs have been called with.
TransportErrorsOf(sinks, ids) ==
  IF ids = {} THEN 0
  ELSE LET id == CHOOSE i \in ids : TRUE
       IN TransportErrorsIn(sinks[id]) + TransportErrorsOf(sinks, ids \ {id})

FewFailed ==
  TransportErrorsOf(promises, DOMAIN promises) + TransportErrorsOf(channels, DOMAIN channels)
    <= MaxTransportErrors

NextTransport ==
  \/ Next
  \/ \E error \in TransportErrors : errored(error) /\ Bounded' /\ FewFailed'

SpecTransport == Init /\ [][NextTransport]_vars

\* Calls and channels on a transport that may fail.
NextCalls ==
  \/ \E name \in EndpointNames, param \in Values, stack \in StackOptions :
       callRpc(name, param, stack) /\ Bounded'
  \/ \E name \in EndpointNames, param \in Values, stack \in StackOptions :
       createChannel(name, param, stack) /\ Bounded'
  \/ \E id \in InboundIds : receivedChannelClose(id) /\ Completes'
  \/ \E id \in InboundIds, error \in SerializedErrors :
       receivedChannelError(id, error) /\ Completes'
  \/ \E id \in InboundIds, result \in Values :
       receivedRpcResult(id, result) /\ Completes'
  \/ \E id \in InboundIds, error \in SerializedErrors :
       receivedRpcError(id, error) /\ Completes'
  \/ \E error \in TransportErrors : errored(error) /\ Bounded'

SpecCalls == Init /\ [][NextCalls]_vars

\* A user who makes mistakes, and a server that is silent.
NextInputs ==
  \/ \E name \in EndpointNames, param \in Values, stack \in StackOptions :
       callRpc(name, param, stack) /\ Bounded'
  \/ \E name \in EndpointNames, param \in Values, stack \in StackOptions :
       createChannel(name, param, stack) /\ Bounded'
  \/ \E name \in EndpointNames, param \in Values, stack \in StackOptions :
       createSignal(name, param, stack) /\ Bounded'
  \/ \E name \in EndpointNames, param \in Values, stack \in StackOptions :
       createWritableSignal(name, param, stack) /\ Bounded'
  \/ \E s \in SignalIndexes : signalSubscribe(s) /\ Bounded'
  \/ \E s \in SignalIndexes : signalUnsubscribe(s)
  \/ \E s \in SignalIndexes : writableSignalSubscribe(s) /\ Bounded'
  \/ \E s \in SignalIndexes : writableSignalUnsubscribe(s)

SpecInputs == Init /\ [][NextInputs]_vars

\* A server that misbehaves without limit, and a user who makes no mistake:
\* the server ends communications with channelClose and rpcResult, and of
\* all other frames it sends those the port drops.
DroppedPatchLists == {<<>>, <<RootPatch(0)>>}

NextWarnings ==
  \/ \E name \in EndpointNames, param \in Values, stack \in StackOptions :
       callRpc(name, param, stack) /\ Completes' /\ Bounded'
  \/ \E name \in EndpointNames, param \in Values, stack \in StackOptions :
       createChannel(name, param, stack) /\ Completes' /\ Bounded'
  \/ \E name \in EndpointNames, param \in Values, stack \in StackOptions :
       createSignal(name, param, stack) /\ Completes' /\ Bounded'
  \/ \E name \in EndpointNames, param \in Values, stack \in StackOptions :
       createWritableSignal(name, param, stack) /\ Completes' /\ Bounded'
  \/ \E s \in SignalIndexes : signalSubscribe(s) /\ Bounded'
  \/ \E s \in SignalIndexes : writableSignalSubscribe(s) /\ Bounded'
  \/ \E id \in InboundIds, message \in Values :
       receivedChannelSend(id, message) /\ IsDropped'
  \/ \E id \in InboundIds, ackId \in AckIds :
       receivedChannelAck(id, ackId) /\ IsDropped'
  \/ \E id \in InboundIds : receivedChannelClose(id) /\ FewEnded'
  \/ \E id \in InboundIds, error \in SerializedErrors :
       receivedChannelError(id, error) /\ IsDropped'
  \/ \E id \in InboundIds, result \in Values :
       receivedRpcResult(id, result) /\ FewEnded'
  \/ \E id \in InboundIds, error \in SerializedErrors :
       receivedRpcError(id, error) /\ IsDropped'
  \/ \E id \in InboundIds, patches \in DroppedPatchLists, tags \in {<<>>} :
       receivedSignalUpdate(id, patches, tags) /\ IsDropped'
  \/ \E id \in InboundIds, error \in SerializedErrors :
       receivedSignalError(id, error) /\ IsDropped'
  \/ \E id \in InboundIds, patches \in DroppedPatchLists, tags \in {<<>>} :
       receivedWritableSignalUpdate(id, patches, tags) /\ IsDropped'
  \/ \E id \in InboundIds, error \in SerializedErrors :
       receivedWritableSignalError(id, error) /\ IsDropped'
  \/ receivedCommunicationWarning

SpecWarnings == Init /\ [][NextWarnings]_vars

\* Calls on a transport that may fail, with a server that answers the calls
\* in flight, also with a result the returns schema rejects.
NextReplies ==
  \/ \E name \in EndpointNames, param \in Values, stack \in StackOptions :
       callRpc(name, param, stack) /\ Bounded'
  \/ \E id \in DOMAIN ongoingRpcs, result \in Values : receivedRpcResult(id, result)
  \/ \E id \in DOMAIN ongoingRpcs, error \in SerializedErrors :
       receivedRpcError(id, error)
  \/ \E error \in TransportErrors : errored(error) /\ Bounded'

SpecReplies == Init /\ [][NextReplies]_vars

\* Signals with observers: the user creates them and attaches an observer;
\* the server sends the updates the port delivers, and errors, for the
\* subscriptions in the tables.
\* The update frames the server sends: patches of every kind, with and
\* without tags.
UpdateFrames ==
  {[patches |-> <<>>, tags |-> <<"tag">>],
   [patches |-> <<RootPatch(1)>>, tags |-> <<>>],
   [patches |-> <<RootPatch(0)>>, tags |-> <<>>],
   [patches |-> <<FieldPatch(2)>>, tags |-> <<"tag">>],
   [patches |-> <<RootPatch(2), FieldPatch(1)>>, tags |-> <<"tag">>]}

RECURSIVE CallsOf(_)
\* The calls of setValue and errored the signal objects have seen.
CallsOf(objects) ==
  IF objects = <<>> THEN 0 ELSE Len(Head(objects).calls) + CallsOf(Tail(objects))

Updates == CallsOf(signals) + CallsOf(writableSignals)

FewUpdates == Updates <= MaxUpdates

NextSignals ==
  \/ \E name \in EndpointNames, param \in Values, stack \in StackOptions :
       createSignal(name, param, stack) /\ Completes' /\ Bounded'
  \/ \E name \in EndpointNames, param \in Values, stack \in StackOptions :
       createWritableSignal(name, param, stack) /\ Completes' /\ Bounded'
  \/ \E s \in SignalIndexes : signalSubscribe(s) /\ Bounded'
  \/ \E s \in SignalIndexes : writableSignalSubscribe(s) /\ Bounded'
  \/ \E id \in DOMAIN openSignalSubscriptions, update \in UpdateFrames :
       receivedSignalUpdate(id, update.patches, update.tags) /\ Completes' /\ FewUpdates'
  \/ \E id \in DOMAIN openSignalSubscriptions, error \in SerializedErrors :
       receivedSignalError(id, error) /\ FewUpdates'
  \/ \E id \in DOMAIN openWritableSignalSubscriptions, update \in UpdateFrames :
       receivedWritableSignalUpdate(id, update.patches, update.tags)
         /\ Completes' /\ FewUpdates'
  \/ \E id \in DOMAIN openWritableSignalSubscriptions, error \in SerializedErrors :
       receivedWritableSignalError(id, error) /\ FewUpdates'

SpecSignals == Init /\ [][NextSignals]_vars

\* Writable signals and their writers: the user creates them, attaches and
\* detaches the observer and writes upstream at any time; the server ends
\* sessions with an error.
FewWrites ==
  Cardinality(Frames("writableSignal", "writableSignalUpdate")) <= MaxWrites

\* What the setter hands to writeUpstream.
Writes == {[patches |-> <<RootPatch(2)>>, tags |-> <<"tag">>]}

NextWrites ==
  \/ \E name \in EndpointNames, param \in Values, stack \in StackOptions :
       createWritableSignal(name, param, stack) /\ Completes' /\ Bounded'
  \/ \E s \in SignalIndexes : writableSignalSubscribe(s) /\ Bounded'
  \/ \E s \in SignalIndexes : writableSignalUnsubscribe(s)
  \/ \E s \in SignalIndexes, write \in Writes :
       writeUpstream(s, write.patches, write.tags) /\ FewWrites'
  \/ \E id \in DOMAIN openWritableSignalSubscriptions, error \in SerializedErrors :
       receivedWritableSignalError(id, error)

SpecWrites == Init /\ [][NextWrites]_vars

\* A backend interface under construction: endpoints of the three kinds are
\* added under names that may be taken, before any port reads it.
RegistryNames == {"add", "chat", "counter"}

InitRegistry ==
  /\ PortFields
  /\ NoSetters
  /\ verboseErrorMessage = FALSE
  /\ backendInterface = emptyInterface

NextRegistry ==
  \/ \E name \in RegistryNames, parameter \in Schemas, returns \in Schemas :
       addRpcEndpoint(name, parameter, returns)
  \/ \E name \in RegistryNames, creationParameter \in Schemas, toServerPacket \in Schemas,
        toClientPacket \in Schemas :
       addChannelEndpoint(name, creationParameter, toServerPacket, toClientPacket)
  \/ \E name \in RegistryNames, creationParameter \in Schemas, signalData \in Schemas :
       addSignalEndpoint(name, creationParameter, signalData)

SpecRegistry == InitRegistry /\ [][NextRegistry]_vars

\* A port constructed with verboseErrorMessage set or not, a user who passes
\* a stack of their own or none, and a server that answers with errors.
SuppliedStacks == {"undefined", "callerStack"}

InitErrors ==
  /\ PortFields
  /\ NoSetters
  /\ verboseErrorMessage \in BOOLEAN
  /\ backendInterface = builtInterface

NextErrors ==
  \/ \E name \in EndpointNames, param \in Values, stack \in SuppliedStacks :
       callRpc(name, param, stack) /\ Completes' /\ Bounded'
  \/ \E name \in EndpointNames, param \in Values, stack \in SuppliedStacks :
       createChannel(name, param, stack) /\ Completes' /\ Bounded'
  \/ \E name \in EndpointNames, param \in Values, stack \in SuppliedStacks :
       createSignal(name, param, stack) /\ Completes' /\ Bounded'
  \/ \E name \in EndpointNames, param \in Values, stack \in SuppliedStacks :
       createWritableSignal(name, param, stack) /\ Completes' /\ Bounded'
  \/ \E s \in SignalIndexes : signalSubscribe(s) /\ Bounded'
  \/ \E s \in SignalIndexes : writableSignalSubscribe(s) /\ Bounded'
  \/ \E id \in DOMAIN ongoingRpcs, error \in SerializedErrors :
       receivedRpcError(id, error)
  \/ \E id \in DOMAIN openChannels, error \in SerializedErrors :
       receivedChannelError(id, error)
  \/ \E id \in DOMAIN openSignalSubscriptions, error \in SerializedErrors :
       receivedSignalError(id, error)
  \/ \E id \in DOMAIN openWritableSignalSubscriptions, error \in SerializedErrors :
       receivedWritableSignalError(id, error)

SpecErrors == InitErrors /\ [][NextErrors]_vars

\* Calls the channels have received.
RECURSIVE ChannelCalls(_)
ChannelCalls(ids) ==
  IF ids = {} THEN 0
  ELSE LET id == CHOOSE i \in ids : TRUE
       IN Len(channels[id]) + ChannelCalls(ids \ {id})

FewDeliveries == ChannelCalls(DOMAIN channels) + Updates <= MaxUpdates

\* A server that sends every kind of frame to the channels and the signal
\* subscriptions that are open, in any order.
NextOrder ==
  \/ \E name \in EndpointNames, param \in Values, stack \in StackOptions :
       createChannel(name, param, stack) /\ Completes' /\ Bounded'
  \/ \E name \in EndpointNames, param \in Values, stack \in StackOptions :
       createSignal(name, param, stack) /\ Completes' /\ Bounded'
  \/ \E name \in EndpointNames, param \in Values, stack \in StackOptions :
       createWritableSignal(name, param, stack) /\ Completes' /\ Bounded'
  \/ \E s \in SignalIndexes : signalSubscribe(s) /\ Bounded'
  \/ \E s \in SignalIndexes : writableSignalSubscribe(s) /\ Bounded'
  \/ \E id \in DOMAIN openChannels, message \in Values :
       receivedChannelSend(id, message) /\ Completes' /\ FewDeliveries'
  \/ \E id \in DOMAIN openChannels, ackId \in AckIds :
       receivedChannelAck(id, ackId) /\ FewDeliveries'
  \/ \E id \in DOMAIN openChannels : receivedChannelClose(id) /\ FewDeliveries'
  \/ \E id \in DOMAIN openChannels, error \in SerializedErrors :
       receivedChannelError(id, error) /\ FewDeliveries'
  \/ \E id \in DOMAIN openSignalSubscriptions, update \in UpdateFrames :
       receivedSignalUpdate(id, update.patches, update.tags)
         /\ Completes' /\ FewDeliveries'
  \/ \E id \in DOMAIN openSignalSubscriptions, error \in SerializedErrors :
       receivedSignalError(id, error) /\ FewDeliveries'
  \/ \E id \in DOMAIN openWritableSignalSubscriptions, update \in UpdateFrames :
       receivedWritableSignalUpdate(id, update.patches, update.tags)
         /\ Completes' /\ FewDeliveries'
  \/ \E id \in DOMAIN openWritableSignalSubscriptions, error \in SerializedErrors :
       receivedWritableSignalError(id, error) /\ FewDeliveries'

SpecOrder == Init /\ [][NextOrder]_vars

FewDrops == producedCommunicationWarningsCount <= MaxDrops

\* A user of calls, channels and signals, and a server whose frames, for any
\* ID, arrive between the user's operations: they end a communication or are
\* dropped.
NextInterleaved ==
  \/ \E name \in EndpointNames, param \in Values, stack \in StackOptions :
       callRpc(name, param, stack) /\ Completes' /\ Bounded'
  \/ \E name \in EndpointNames, param \in Values, stack \in StackOptions :
       createChannel(name, param, stack) /\ Completes' /\ Bounded'
  \/ \E name \in EndpointNames, param \in Values, stack \in StackOptions :
       createSignal(name, param, stack) /\ Completes' /\ Bounded'
  \/ \E s \in SignalIndexes : signalSubscribe(s) /\ Bounded'
  \/ \E s \in SignalIndexes : signalUnsubscribe(s)
  \/ \E id \in InboundIds : receivedChannelClose(id) /\ FewDrops'
  \/ \E id \in InboundIds, error \in SerializedErrors :
       receivedChannelError(id, error) /\ FewDrops'
  \/ \E id \in InboundIds, result \in Values :
       receivedRpcResult(id, result) /\ FewDrops'
  \/ \E id \in InboundIds, error \in SerializedErrors :
       receivedRpcError(id, error) /\ FewDrops'
  \/ \E id \in InboundIds, error \in SerializedErrors :
       receivedSignalError(id, error) /\ FewDrops'

SpecInterleaved == Init /\ [][NextInterleaved]_vars

\* The first specification with a server that also sends warnings and
\* keep-alive acks.
NextIgnored ==
  \/ Next
  \/ receivedCommunicationWarning
  \/ receivedKeepAliveAck

SpecIgnored == Init /\ [][NextIgnored]_vars

\* Setters made by makeSetter and makeSetterWithPatches, with and without a
\* prependTagsFn, called in each flavour on a value that is a document or not
\* available.
OldValues == {NotAvailable, Document(0), Document(1), Document(2)}

PrependTagOptions == {Absent, Given(<<"first", "second">>)}

TagOptions == {Absent, Given(<<"tag">>)}

SingleTagOptions == {Absent, Given("tag")}

SetValues == {Document(1), Document(2)}

SetterProducers ==
  {[does |-> "nothing", n |-> 0], [does |-> "assign", n |-> 1], [does |-> "return", n |-> 2]}

SetterPatchLists == {<<>>, <<RootPatch(1)>>, <<FieldPatch(2)>>}

FewSetterCalls == Len(updateCalls) <= MaxSetterCalls

InitSetters ==
  /\ PortFields
  /\ verboseErrorMessage = FALSE
  /\ backendInterface = builtInterface
  /\ setterData \in OldValues
  /\ updateCalls = <<>>

NextSetters ==
  \/ \E prependTags \in PrependTagOptions, value \in SetValues, tags \in TagOptions :
       makeSetter_set(prependTags, value, tags) /\ FewSetterCalls'
  \/ \E prependTags \in PrependTagOptions, producer \in SetterProducers, tags \in TagOptions :
       makeSetter_withImmer(prependTags, producer, tags) /\ FewSetterCalls'
  \/ \E prependTags \in PrependTagOptions, updater \in Updaters, tags \in TagOptions :
       makeSetter_withUpdater(prependTags, updater, tags) /\ FewSetterCalls'
  \/ \E prependTags \in PrependTagOptions, patches \in SetterPatchLists, tags \in TagOptions :
       makeSetter_withPatches(prependTags, patches, tags) /\ FewSetterCalls'
  \/ \E prependTags \in PrependTagOptions, value \in SetValues, tags \in TagOptions :
       makeSetterWithPatches_set(prependTags, value, tags) /\ FewSetterCalls'
  \/ \E prependTags \in PrependTagOptions, producer \in SetterProducers, tags \in TagOptions :
       makeSetterWithPatches_withImmer(prependTags, producer, tags) /\ FewSetterCalls'
  \/ \E prependTags \in PrependTagOptions, updater \in Updaters, tags \in TagOptions :
       makeSetterWithPatches_withUpdater(prependTags, updater, tags) /\ FewSetterCalls'
  \/ \E prependTags \in PrependTagOptions, patches \in SetterPatchLists, tags \in TagOptions :
       makeSetterWithPatches_withPatches(prependTags, patches, tags) /\ FewSetterCalls'
  \/ \E value \in SetValues, tag \in SingleTagOptions :
       tagSetter_set(value, tag) /\ FewSetterCalls'
  \/ \E producer \in SetterProducers, tag \in SingleTagOptions :
       tagSetter_withImmer(producer, tag) /\ FewSetterCalls'
  \/ \E updater \in Updaters, tag \in SingleTagOptions :
       tagSetter_withUpdater(updater, tag) /\ FewSetterCalls'
  \/ \E patches \in SetterPatchLists, tag \in SingleTagOptions :
       tagSetter_withPatches(patches, tag) /\ FewSetterCalls'

SpecSetters == InitSetters /\ [][NextSetters]_vars

FewSends == Cardinality(Frames("channel", "channelSend")) <= MaxSends

\* A user who makes calls and channels and sends packets, valid or not, on
\* the channels, and a server that closes channels.
NextChannels ==
  \/ \E name \in EndpointNames, param \in Values, stack \in StackOptions :
       callRpc(name, param, stack) /\ Completes' /\ Bounded'
  \/ \E name \in EndpointNames, param \in Values, stack \in StackOptions :
       createChannel(name, param, stack) /\ Completes' /\ Bounded'
  \/ \E id \in InboundIds, packet \in Values : channelSend(id, packet) /\ FewSends'
  \/ \E id \in DOMAIN openChannels : receivedChannelClose(id)

SpecChannels == Init /\ [][NextChannels]_vars

\* What the server sends after a detach.
LateUpdates == {[patches |-> <<RootPatch(1)>>, tags |-> <<"tag">>]}

\* Observers that attach to and detach from the signals, and a server that
\* goes on sending updates.
NextDetached ==
  \/ \E name \in EndpointNames, param \in Values, stack \in StackOptions :
       createSignal(name, param, stack) /\ Completes' /\ Bounded'
  \/ \E name \in EndpointNames, param \in Values, stack \in StackOptions :
       createWritableSignal(name, param, stack) /\ Completes' /\ Bounded'
  \/ \E s \in SignalIndexes : signalSubscribe(s) /\ Bounded'
  \/ \E s \in SignalIndexes : signalUnsubscribe(s)
  \/ \E s \in SignalIndexes : writableSignalSubscribe(s) /\ Bounded'
  \/ \E s \in SignalIndexes : writableSignalUnsubscribe(s)
  \/ \E id \in InboundIds, update \in LateUpdates :
       receivedSignalUpdate(id, update.patches, update.tags) /\ FewUpdates' /\ FewDrops'
  \/ \E id \in InboundIds, update \in LateUpdates :
       receivedWritableSignalUpdate(id, update.patches, update.tags)
         /\ FewUpdates' /\ FewDrops'

SpecDetached == Init /\ [][NextDetached]_vars

\* The IDs that are in a table of some kind.
IdsInUse ==
  DOMAIN openChannels \cup DOMAIN ongoingRpcs \cup DOMAIN openSignalSubscriptions
    \cup DOMAIN openWritableSignalSubscriptions

\* A server that sends frames of every kind for the IDs that are in use,
\* whatever the kind of the ID.
NextKinds ==
  \/ \E name \in EndpointNames, param \in Values, stack \in StackOptions :
       callRpc(name, param, stack) /\ Completes' /\ Bounded'
  \/ \E name \in EndpointNames, param \in Values, stack \in StackOptions :
       createChannel(name, param, stack) /\ Completes' /\ Bounded'
  \/ \E name \in EndpointNames, param \in Values, stack \in StackOptions :
       createSignal(name, param, stack) /\ Completes' /\ Bounded'
  \/ \E name \in EndpointNames, param \in Values, stack \in StackOptions :
       createWritableSignal(name, param, stack) /\ Completes' /\ Bounded'
  \/ \E s \in SignalIndexes : signalSubscribe(s) /\ Bounded'
  \/ \E s \in SignalIndexes : writableSignalSubscribe(s) /\ Bounded'
  \/ \E id \in IdsInUse : receivedChannelClose(id) /\ FewDrops'
  \/ \E id \in IdsInUse, result \in Values : receivedRpcResult(id, result) /\ FewDrops'
  \/ \E id \in IdsInUse, update \in LateUpdates :
       receivedSignalUpdate(id, update.patches, update.tags) /\ FewDrops' /\ FewUpdates'
  \/ \E id \in IdsInUse, update \in LateUpdates :
       receivedWritableSignalUpdate(id, update.patches, update.tags)
         /\ FewDrops' /\ FewUpdates'

SpecKinds == Init /\ [][NextKinds]_vars

\* A backend interface under construction whose endpoints are given
\* handlers, under names that may not be registered or not for the kind, and
\* that is asked whether all its endpoints are handled.
Handlers == {"handler", "otherHandler"}

HandledSchemas == {"normalizing"}

NextHandlers ==
  \/ \E name \in RegistryNames, parameter \in HandledSchemas, returns \in HandledSchemas :
       addRpcEndpoint(name, parameter, returns)
  \/ \E name \in RegistryNames, creationParameter \in HandledSchemas,
        toServerPacket \in HandledSchemas, toClientPacket \in HandledSchemas :
       addChannelEndpoint(name, creationParameter, toServerPacket, toClientPacket)
  \/ \E name \in RegistryNames, creationParameter \in HandledSchemas,
        signalData \in HandledSchemas :
       addSignalEndpoint(name, creationParameter, signalData)
  \/ \E name \in RegistryNames, handler \in Handlers : handleRpcEndpoint(name, handler)
  \/ \E name \in RegistryNames, handler \in Handlers : handleChannelEndpoint(name, handler)
  \/ \E name \in RegistryNames, handler \in Handlers : handleSignalEndpoint(name, handler)
  \/ assertAllEndpointsHandled

SpecHandlers == InitRegistry /\ [][NextHandlers]_vars

\* Communications of all four kinds with observers that come and go, on a
\* transport that fails, with a server that is silent.
NextFailing ==
  \/ \E name \in EndpointNames, param \in Values, stack \in StackOptions :
       callRpc(name, param, stack) /\ Completes' /\ Bounded'
  \/ \E name \in EndpointNames, param \in Values, stack \in StackOptions :
       createChannel(name, param, stack) /\ Completes' /\ Bounded'
  \/ \E name \in EndpointNames, param \in Values, stack \in StackOptions :
       createSignal(name, param, stack) /\ Completes' /\ Bounded'
  \/ \E name \in EndpointNames, param \in Values, stack \in StackOptions :
       createWritableSignal(name, param, stack) /\ Completes' /\ Bounded'
  \/ \E s \in SignalIndexes : signalSubscribe(s) /\ Bounded'
  \/ \E s \in SignalIndexes : writableSignalSubscribe(s) /\ Bounded'
  \/ \E s \in SignalIndexes : signalUnsubscribe(s)
  \/ \E s \in SignalIndexes : writableSignalUnsubscribe(s)
  \/ \E error \in TransportErrors : errored(error) /\ Bounded'

SpecFailing == Init /\ [][NextFailing]_vars

\* ------------------------------------------------------------------- claims
TableSizes ==
  Cardinality(DOMAIN openChannels) + Cardinality(DOMAIN ongoingRpcs)
    + Cardinality(DOMAIN openSignalSubscriptions)
    + Cardinality(DOMAIN openWritableSignalSubscriptions)

LowersCount == openCommunicationsCount' = openCommunicationsCount - 1

\* Every frame that ends a communication, arriving for an ID of its table,
\* takes the record of that ID out of the table and lowers the count by one;
\* an rpcResult whatever its result (anyResult), or one whose result passes
\* the returns schema.
TerminalFramesRemove(anyResult) ==
  \A id \in InboundIds :
    /\ id \in DOMAIN openChannels /\ receivedChannelClose(id)
         => DOMAIN openChannels' = DOMAIN openChannels \ {id} /\ LowersCount
    /\ \A error \in SerializedErrors :
         id \in DOMAIN openChannels /\ receivedChannelError(id, error)
           => DOMAIN openChannels' = DOMAIN openChannels \ {id} /\ LowersCount
    /\ \A result \in Values :
         /\ id \in DOMAIN ongoingRpcs
         /\ anyResult \/ safeParse(ongoingRpcs[id].endpoint.returns, result).success
         /\ receivedRpcResult(id, result)
         => DOMAIN ongoingRpcs' = DOMAIN ongoingRpcs \ {id} /\ LowersCount
    /\ \A error \in SerializedErrors :
         id \in DOMAIN ongoingRpcs /\ receivedRpcError(id, error)
           => DOMAIN ongoingRpcs' = DOMAIN ongoingRpcs \ {id} /\ LowersCount
    /\ \A error \in SerializedErrors :
         id \in DOMAIN openSignalSubscriptions /\ receivedSignalError(id, error)
           => /\ DOMAIN openSignalSubscriptions' = DOMAIN openSignalSubscriptions \ {id}
              /\ LowersCount
    /\ \A error \in SerializedErrors :
         id \in DOMAIN openWritableSignalSubscriptions
           /\ receivedWritableSignalError(id, error)
           => /\ DOMAIN openWritableSignalSubscriptions' =
                   DOMAIN openWritableSignalSubscriptions \ {id}
              /\ LowersCount

\* C1, as amended: a terminal inbound frame (rpcResult, rpcError,
\* channelClose, channelError, signalError, writableSignalError) whose ID is
\* in the matching table removes that record and lowers the
\* open-communications count by exactly one, for an rpcResult provided its
\* result passes the endpoint's returns schema.
C1_TerminalFrameRemovesRecord == [][TerminalFramesRemove(FALSE)]_vars

\* An rpcResult with a valid result has resolved the promise of a call and
\* removed its record, after the port had dropped a frame.
C1_Witness ==
  /\ producedCommunicationWarningsCount = 1
  /\ last = "ok"
  /\ \E id \in DOMAIN promises :
       /\ id \notin DOMAIN ongoingRpcs
       /\ promises[id] = <<SinkCall("resolve", 2, NoError)>>
       /\ openCommunicationsCount = TableSizes

\* C1 as stated: the same for every payload, an rpcResult whose result fails
\* the returns schema included.
C1_AnyPayloadRemovesRecord == [][TerminalFramesRemove(TRUE)]_vars

\* C2: on a transport error every RPC in flight is rejected with the error
\* and every open channel has its error sink called with the error; none is
\* skipped.
C2_TransportErrorReachesAll ==
  [][\A error \in TransportErrors :
       errored(error) =>
         /\ \A id \in DOMAIN ongoingRpcs :
              promises'[id] =
                Append(promises[id], SinkCall("reject", 0, TransportError(error)))
         /\ \A id \in DOMAIN openChannels :
              channels'[id] =
                Append(channels[id], SinkCall("errored", 0, TransportError(error)))]_vars

\* A transport error has reached an RPC in flight and an open channel.
C2_Witness ==
  /\ \E id \in DOMAIN ongoingRpcs :
       /\ promises[id] # <<>>
       /\ promises[id][Len(promises[id])].error.title \in TransportErrors
  /\ \E id \in DOMAIN openChannels :
       /\ channels[id] # <<>>
       /\ channels[id][Len(channels[id])].error.title \in TransportErrors

\* C3: a transport error arriving while only RPCs and channels are open
\* leaves both tables empty and the open-communications count 0, and reports
\* one onHavingNoOpenCommunication edge for that transition.
C3_TransportErrorEmptiesTables ==
  [][\A error \in TransportErrors :
       /\ DOMAIN openSignalSubscriptions = {}
       /\ DOMAIN openWritableSignalSubscriptions = {}
       /\ errored(error)
       => /\ DOMAIN ongoingRpcs' = {}
          /\ DOMAIN openChannels' = {}
          /\ openCommunicationsCount' = 0
          /\ openCommunicationsCount > 0
               => edges' = Append(edges, "onHavingNoOpenCommunication")]_vars

\* What the port does with a frame it drops for its unknown ID: it returns
\* to the transport, changes nothing, and sends one warning unless five
\* were produced.
DroppedAsUnknown ==
  /\ last' = "unknown"
  /\ UNCHANGED <<tables, counters, openCommunicationsCount, edges, observers, sent>>
  /\ sentWarnings' =
       IF producedCommunicationWarningsCount < 5 THEN sentWarnings + 1 ELSE sentWarnings

\* C4: an inbound frame of an ID-carrying kind whose ID is not in the table
\* of its kind is dropped: no table, ID counter, open-count or observer
\* changes, no error is raised to the transport, and at most one
\* communicationWarning frame is sent for it, exactly one while fewer than
\* five warnings were produced.  Stated on a step: it is such a drop, or no
\* handler given an unknown ID has taken it.
C4_UnknownIdDropped ==
  [][\/ DroppedAsUnknown
     \/ \A id \in InboundIds :
          /\ id \notin DOMAIN openChannels =>
               /\ \A message \in Values : ~receivedChannelSend(id, message)
               /\ \A ackId \in AckIds : ~receivedChannelAck(id, ackId)
               /\ ~receivedChannelClose(id)
               /\ \A error \in SerializedErrors : ~receivedChannelError(id, error)
          /\ id \notin DOMAIN ongoingRpcs =>
               /\ \A result \in Values : ~receivedRpcResult(id, result)
               /\ \A error \in SerializedErrors : ~receivedRpcError(id, error)
          /\ id \notin DOMAIN openSignalSubscriptions =>
               /\ \A patches \in DroppedPatchLists, tags \in TagLists :
                    ~receivedSignalUpdate(id, patches, tags)
               /\ \A error \in SerializedErrors : ~receivedSignalError(id, error)
          /\ id \notin DOMAIN openWritableSignalSubscriptions =>
               /\ \A patches \in DroppedPatchLists, tags \in TagLists :
                    ~receivedWritableSignalUpdate(id, patches, tags)
               /\ \A error \in SerializedErrors :
                    ~receivedWritableSignalError(id, error)]_vars

\* A frame with an unknown ID was dropped after the fifth warning, with
\* communications of two kinds open.
C4_Witness ==
  /\ last = "unknown"
  /\ producedCommunicationWarningsCount = 5
  /\ DOMAIN openChannels # {}
  /\ DOMAIN openSignalSubscriptions # {}

\* C5: the port sends at most 5 communicationWarning frames: each of the
\* first five frames it drops sends one, every later one none, and an inbound
\* communicationWarning never advances the warning counter.
C5_AtMostFiveWarnings ==
  [][/\ sentWarnings' <= 5
     /\ IsDropped' =>
          sentWarnings' = IF sentWarnings < 5 THEN sentWarnings + 1 ELSE sentWarnings
     /\ ~IsDropped' => sentWarnings' = sentWarnings
     /\ receivedCommunicationWarning =>
          UNCHANGED <<producedCommunicationWarningsCount, sentWarnings>>]_vars

\* The fifth warning was sent and the suppression line printed, and a later
\* frame was dropped for its invalid payload.
C5_Witness ==
  /\ sentWarnings = 5
  /\ loggerCalls = [warn |-> 5, error |-> 1]
  /\ last = "invalid"

IsAllocation(frame) ==
  frame.type \in {"rpcCall", "channelCreate", "signalSubscribe", "writableSignalSubscribe"}

\* The IDs the port has allocated in an ID space, in the order of allocation.
AllocatedIds(space) ==
  LET frames == SelectSeq(sent[space], IsAllocation)
  IN [i \in 1 .. Len(frames) |-> frames[i].id]

CountingFromZero(ids) == \A i \in 1 .. Len(ids) : ids[i] = i - 1

Alternating(callbacks) ==
  \A i \in 1 .. Len(callbacks) :
    callbacks[i] = IF i % 2 = 1 THEN "onHavingOneOrMoreOpenCommunication"
                   ELSE "onHavingNoOpenCommunication"

\* C7: a transition of the open-communications count from 0 to 1 calls
\* onHavingOneOrMoreOpenCommunication once, a transition from at least 1 to 0
\* calls onHavingNoOpenCommunication once, no callback is called without
\* such a transition, and the callbacks alternate, starting with
\* onHavingOneOrMoreOpenCommunication.
C7_EdgesFollowTransitions ==
  [][/\ openCommunicationsCount = 0 /\ openCommunicationsCount' = 1
          => edges' = Append(edges, "onHavingOneOrMoreOpenCommunication")
     /\ openCommunicationsCount >= 1 /\ openCommunicationsCount' = 0
          => edges' = Append(edges, "onHavingNoOpenCommunication")
     /\ (openCommunicationsCount = 0) = (openCommunicationsCount' = 0)
          => edges' = edges
     /\ Alternating(edges')]_vars

\* The count went up from 0, back to 0, and up again with the second ID.
C7_Witness ==
  /\ edges = <<"onHavingOneOrMoreOpenCommunication", "onHavingNoOpenCommunication",
               "onHavingOneOrMoreOpenCommunication">>
  /\ openCommunicationsCount = 1
  /\ nextChannelId = 2

\* C8: after every operation, inbound frame and transport error the
\* open-communications count is the sum of the sizes of the four tables.
C8_CountIsSumOfTables == openCommunicationsCount = TableSizes

\* Two tables hold a record each, after a transport error has reached the
\* RPC in flight.
C8_Witness ==
  /\ openCommunicationsCount = 2
  /\ DOMAIN openSignalSubscriptions # {}
  /\ \E id \in DOMAIN ongoingRpcs : promises[id] # <<>>

\* The rpcCall frames sent with a call ID.
RpcCallFrames(callId) ==
  {i \in Frames("channel", "rpcCall") : sent["channel"][i].id = callId}

\* C9: a callRpc that passes the endpoint lookup and the parameter
\* validation sends one rpcCall frame with its call ID, the endpoint name and
\* the validated parameter, and has sent it when it returns the promise,
\* which nothing has settled yet; no second rpcCall frame follows for that
\* call ID.
C9_OneRpcCallFrame ==
  [][/\ \A name \in EndpointNames, param \in Values, stack \in StackOptions :
          /\ getRpcEndpoint(name) # undefined
          /\ safeParse(getRpcEndpoint(name).parameter, param).success
          /\ callRpc(name, param, stack)
          => LET callId == nextChannelId
                 parameter == safeParse(getRpcEndpoint(name).parameter, param).data
             IN /\ sent'["channel"] =
                     Append(sent["channel"], Frame("rpcCall", name, callId, parameter))
                /\ callId \notin DOMAIN promises
                /\ promises'[callId] = <<>>
     /\ (\A callId \in DOMAIN promises : Cardinality(RpcCallFrames(callId)) = 1)']_vars

\* A call whose parameter the schema changed was sent and later resolved.
C9_Witness ==
  \E callId \in DOMAIN promises :
    /\ promises[callId] # <<>>
    /\ promises[callId][1].sink = "resolve"
    /\ \E i \in RpcCallFrames(callId) :
         sent["channel"][i] = Frame("rpcCall", "add", callId, 1)

\* The operation raised and left the port as it was.
RaisedUnchanged ==
  /\ last' = "threw"
  /\ UNCHANGED <<tables, counters, openCommunicationsCount, edges, observers, sent,
                 sentWarnings, producedCommunicationWarningsCount>>

\* C10: callRpc, createChannel, createSignal and createWritableSignal, called
\* with an endpoint name that is not registered for their kind or with a
\* parameter that fails the endpoint's schema, raise and leave the port
\* unchanged: no frame sent, no record installed, no ID consumed, the
\* open-count and the edge callbacks untouched.  Stated on a step: it raises
\* and changes nothing, or no operation given such an input has taken it.
C10_RejectedInputChangesNothing ==
  [][\/ RaisedUnchanged
     \/ \A name \in EndpointNames, param \in Values, stack \in StackOptions :
          /\ (\/ getRpcEndpoint(name) = undefined
              \/ ~safeParse(getRpcEndpoint(name).parameter, param).success)
               => ~callRpc(name, param, stack)
          /\ (\/ getChannelEndpoint(name) = undefined
              \/ ~safeParse(getChannelEndpoint(name).creationParameter, param).success)
               => ~createChannel(name, param, stack)
          /\ (\/ getSignalEndpoint(name) = undefined
              \/ ~safeParse(getSignalEndpoint(name).creationParameter, param).success)
               => ~createSignal(name, param, stack)
          /\ (\/ getWritableSignalEndpoint(name) = undefined
              \/ ~safeParse(getWritableSignalEndpoint(name).creationParameter,
                            param).success)
               => ~createWritableSignal(name, param, stack)]_vars

\* An operation has raised on a port with a communication open and a signal
\* created.
C10_Witness ==
  /\ last = "threw"
  /\ openCommunicationsCount = 1
  /\ Len(signals) = 1

\* How a promise is settled: by the first call of resolve or reject, and not
\* at all before it.
Unsettled == SinkCall("none", 0, NoError)

Settlement(calls) == IF calls = <<>> THEN Unsettled ELSE calls[1]

\* The calls of resolve and reject on the promise of callId before a step.
CallsBefore(callId) == IF callId \in DOMAIN promises THEN promises[callId] ELSE <<>>

\* The promise of callId is, after the step, settled as the call of resolve
\* or reject settles it.
SettledBy(callId, call) ==
  Settlement(promises'[callId]) = Settlement(Append(promises[callId], call))

\* Every reply to a call in flight settles its promise: an rpcResult whatever
\* its result (anyResult), or one whose result passes the returns schema;
\* and nothing but a reply or a transport error settles a promise.
RepliesSettle(anyResult) ==
  /\ \A callId \in DOMAIN ongoingRpcs :
       LET ongoingRpc == ongoingRpcs[callId] IN
       /\ \A result \in Values :
            LET parsed == safeParse(ongoingRpc.endpoint.returns, result) IN
            /\ anyResult \/ parsed.success
            /\ receivedRpcResult(callId, result)
            => /\ promises'[callId] # <<>>
               /\ SettledBy(callId, SinkCall("resolve", parsed.data, NoError))
       /\ \A serialized \in SerializedErrors :
            receivedRpcError(callId, serialized)
            => /\ promises'[callId] # <<>>
               /\ SettledBy(callId,
                    SinkCall("reject", 0,
                             errorDeserializer(serialized,
                               IF verboseErrorMessage THEN ongoingRpc.stack ELSE NoStack)))
       /\ \A error \in TransportErrors :
            errored(error)
            => /\ promises'[callId] # <<>>
               /\ SettledBy(callId, SinkCall("reject", 0, TransportError(error)))
  /\ \A callId \in DOMAIN promises' :
       Settlement(promises'[callId]) # Settlement(CallsBefore(callId))
       => /\ callId \in DOMAIN ongoingRpcs
          /\ \/ \E result \in Values : receivedRpcResult(callId, result)
             \/ \E serialized \in SerializedErrors : receivedRpcError(callId, serialized)
             \/ \E error \in TransportErrors : errored(error)

\* C11, as amended: the promise callRpc returns is unsettled until an
\* rpcResult or rpcError for its callId or a transport error is processed,
\* and is settled once it has been: resolved with the validated result by an
\* rpcResult whose result passes the returns schema, rejected with the
\* deserialized error by an rpcError, rejected with the transport error by
\* onError.  An rpcResult whose result fails the schema is dropped and leaves
\* the promise unsettled.
C11_ReplySettlesPromise == [][RepliesSettle(FALSE)]_vars

\* One promise was resolved with its result, after an rpcResult for it had
\* been dropped, and another rejected with the transport error.
C11_Witness ==
  /\ producedCommunicationWarningsCount > 0
  /\ \E callId \in DOMAIN promises :
       Settlement(promises[callId]) = SinkCall("resolve", 2, NoError)
  /\ \E callId \in DOMAIN promises :
       Settlement(promises[callId]).error.title \in TransportErrors

\* C11 as stated: every rpcResult for the callId settles the promise.
C11_AnyReplySettlesPromise == [][RepliesSettle(TRUE)]_vars

\* What the port does with a frame it drops for its payload: it returns to
\* the transport, changes no table, counter, promise, channel or signal, and
\* sends one warning unless five were produced.
DroppedAsInvalid ==
  /\ last' = "invalid"
  /\ UNCHANGED <<tables, counters, openCommunicationsCount, edges, observers, sent>>
  /\ sentWarnings' =
       IF producedCommunicationWarningsCount < MaxCommunicationWarnings
       THEN sentWarnings + 1 ELSE sentWarnings

\* The patched value of an update for the subscription exists and fails the
\* signalData schema.
InvalidPatchedValue(subscription, value, patches) ==
  LET afterValue == applyPatches(value, patches) IN
  /\ ~afterValue.threw
  /\ ~safeParseDocument(subscription.endpoint.signalData, afterValue.value).success

\* C12: an inbound frame for a known ID whose payload fails its schema (the
\* message of a channelSend, the result of an rpcResult, the patched value of
\* a signalUpdate or writableSignalUpdate) sends one communicationWarning
\* unless five were produced, and is dropped: no promise, channel sink or
\* signal is touched.  Stated on a step: it is such a drop, or no handler
\* given a known ID and an invalid payload has taken it.
C12_InvalidPayloadDropped ==
  [][\/ DroppedAsInvalid
     \/ \A id \in InboundIds :
          /\ id \in DOMAIN openChannels =>
               \A message \in Values :
                 ~safeParse(openChannels[id].endpoint.toClientPacket, message).success
                   => ~receivedChannelSend(id, message)
          /\ id \in DOMAIN ongoingRpcs =>
               \A result \in Values :
                 ~safeParse(ongoingRpcs[id].endpoint.returns, result).success
                   => ~receivedRpcResult(id, result)
          /\ id \in DOMAIN openSignalSubscriptions =>
               \A patches \in DroppedPatchLists, tags \in TagLists :
                 InvalidPatchedValue(openSignalSubscriptions[id],
                                     signals[openSignalSubscriptions[id].signal].value,
                                     patches)
                   => ~receivedSignalUpdate(id, patches, tags)
          /\ id \in DOMAIN openWritableSignalSubscriptions =>
               \A patches \in DroppedPatchLists, tags \in TagLists :
                 InvalidPatchedValue(
                     openWritableSignalSubscriptions[id],
                     writableSignals[openWritableSignalSubscriptions[id].signal].value,
                     patches)
                   => ~receivedWritableSignalUpdate(id, patches, tags)]_vars

\* A frame with an invalid payload was dropped after the fifth warning, with
\* a channel and a writable signal subscription open and untouched.
C12_Witness ==
  /\ last = "invalid"
  /\ producedCommunicationWarningsCount = MaxCommunicationWarnings
  /\ \E id \in DOMAIN openChannels : channels[id] = <<>>
  /\ \E id \in DOMAIN openWritableSignalSubscriptions :
       writableSignals[openWritableSignalSubscriptions[id].signal].calls = <<>>

\* The update for the subscription yields a patched value that passes the
\* signalData schema.
ValidPatchedValue(subscription, value, patches) ==
  LET afterValue == applyPatches(value, patches) IN
  /\ ~afterValue.threw
  /\ safeParseDocument(subscription.endpoint.signalData, afterValue.value).success

\* The signal object was handed the value with the tags, after all it had
\* been handed before.
Delivered(before, after, value, tags) ==
  after.calls = Append(before.calls, SignalCall("setValue", value, tags, NoError))

\* C13: a signalUpdate or writableSignalUpdate for an open subscription whose
\* patched value passes the signalData schema delivers to the signal exactly
\* the frame's patches applied to the signal's current value, with the
\* frame's tags, after the values delivered before; and every delivered
\* value passes the schema.
C13_DeliversPatchedValue ==
  [][/\ \A id \in DOMAIN openSignalSubscriptions, update \in UpdateFrames :
          LET subscription == openSignalSubscriptions[id]
              s == subscription.signal
          IN /\ ValidPatchedValue(subscription, signals[s].value, update.patches)
             /\ receivedSignalUpdate(id, update.patches, update.tags)
             => /\ Delivered(signals[s], signals'[s],
                             applyPatches(signals[s].value, update.patches).value,
                             update.tags)
                /\ safeParseDocument(subscription.endpoint.signalData,
                                     signals'[s].value).success
     /\ \A id \in DOMAIN openWritableSignalSubscriptions, update \in UpdateFrames :
          LET subscription == openWritableSignalSubscriptions[id]
              s == subscription.signal
          IN /\ ValidPatchedValue(subscription, writableSignals[s].value, update.patches)
             /\ receivedWritableSignalUpdate(id, update.patches, update.tags)
             => /\ Delivered(writableSignals[s], writableSignals'[s],
                             applyPatches(writableSignals[s].value, update.patches).value,
                             update.tags)
                /\ safeParseDocument(subscription.endpoint.signalData,
                                     writableSignals'[s].value).success]_vars

\* The positions of the frames of a type with an ID in the ID space.
FramesWithId(space, type, id) ==
  {i \in Frames(space, type) : sent[space][i].id = id}

\* The frames of the upstream sessions in an ID space: one subscribe frame
\* for every ID allocated, at most one unsubscribe frame for it, and that one
\* after the subscribe frame.
SessionFrames(space, subscribeType, unsubscribeType, nextId) ==
  \A id \in InboundIds :
    /\ Cardinality(FramesWithId(space, subscribeType, id)) = IF id < nextId THEN 1 ELSE 0
    /\ Cardinality(FramesWithId(space, unsubscribeType, id)) <= 1
    /\ \A u \in FramesWithId(space, unsubscribeType, id) :
         \E f \in FramesWithId(space, subscribeType, id) : f < u

\* C14: createSignal and createWritableSignal send no frame and allocate no
\* ID; the first observer of the signal starts an upstream session, which
\* sends one subscribe frame with the next ID of its counter; the last
\* observer's detaching sends one unsubscribe frame with the ID of that
\* session, after its subscribe frame.
C14_OneSubscribeOneUnsubscribe ==
  [][/\ Len(signals') > Len(signals) \/ Len(writableSignals') > Len(writableSignals)
          => UNCHANGED <<sent, counters, tables>>
     /\ \A s \in DOMAIN signals :
          /\ signalSubscribe(s)
               => /\ sent' = Send("signal",
                                  Frame("signalSubscribe", signals[s].endpoint,
                                        nextSubscribeId, signals[s].creationParameter))
                  /\ nextSubscribeId' = nextSubscribeId + 1
          /\ signalUnsubscribe(s)
               => sent' = Send("signal", Frame("signalUnsubscribe", "",
                                               signals[s].subscribeId, 0))
     /\ \A s \in DOMAIN writableSignals :
          /\ writableSignalSubscribe(s)
               => /\ sent' = Send("writableSignal",
                                  Frame("writableSignalSubscribe", writableSignals[s].endpoint,
                                        nextWritableSubscribeId,
                                        writableSignals[s].creationParameter))
                  /\ nextWritableSubscribeId' = nextWritableSubscribeId + 1
          /\ writableSignalUnsubscribe(s)
               => sent' = Send("writableSignal",
                               Frame("writableSignalUnsubscribe", "",
                                     writableSignals[s].subscribeId, 0))
     /\ SessionFrames("signal", "signalSubscribe", "signalUnsubscribe", nextSubscribeId)'
     /\ SessionFrames("writableSignal", "writableSignalSubscribe",
                      "writableSignalUnsubscribe", nextWritableSubscribeId)']_vars

\* A writable signal is in its second session: subscribe 0, unsubscribe 0,
\* subscribe 1.
C14_Witness ==
  /\ Len(sent["writableSignal"]) = 3
  /\ sent["writableSignal"][1] = Frame("writableSignalSubscribe", "config", 0, 1)
  /\ sent["writableSignal"][2] = Frame("writableSignalUnsubscribe", "", 0, 0)
  /\ sent["writableSignal"][3] = Frame("writableSignalSubscribe", "config", 1, 1)
  /\ writableSignals[1].observers = 1

\* C15: when the last observer of a signal or writable signal detaches, the
\* record of its subscription is removed from its table and the
\* open-communications count decreases by one, and a port that had no other
\* communication open reports onHavingNoOpenCommunication.
C15_DetachRemovesRecord ==
  [][/\ \A s \in DOMAIN signals :
          /\ signals[s].subscribeId \in DOMAIN openSignalSubscriptions
          /\ signalUnsubscribe(s)
          => /\ DOMAIN openSignalSubscriptions' =
                  DOMAIN openSignalSubscriptions \ {signals[s].subscribeId}
             /\ LowersCount
             /\ openCommunicationsCount = 1
                  => edges' = Append(edges, "onHavingNoOpenCommunication")
     /\ \A s \in DOMAIN writableSignals :
          /\ writableSignals[s].subscribeId \in DOMAIN openWritableSignalSubscriptions
          /\ writableSignalUnsubscribe(s)
          => /\ DOMAIN openWritableSignalSubscriptions' =
                  DOMAIN openWritableSignalSubscriptions \ {writableSignals[s].subscribeId}
             /\ LowersCount
             /\ openCommunicationsCount = 1
                  => edges' = Append(edges, "onHavingNoOpenCommunication")]_vars

\* C16: the upstream writer of a writable signal, called while the signal
\* has no upstream session (before its first observer has attached, and
\* after a teardown until the next subscription), fails with the
\* not-subscribed error and sends no writableSignalUpdate frame.
C16_WriteWithoutSessionFails ==
  [][\A s \in DOMAIN writableSignals, write \in Writes :
       /\ writableSignals[s].observers = 0
       /\ writeUpstream(s, write.patches, write.tags)
       => /\ last' = "threw"
          /\ UNCHANGED <<sent, tables, counters, openCommunicationsCount, observers>>]_vars

\* A write failed after the teardown of a session in which one had been
\* sent.
C16_Witness ==
  /\ last = "threw"
  /\ Len(sent["writableSignal"]) = 3
  /\ sent["writableSignal"][2].type = "writableSignalUpdate"
  /\ sent["writableSignal"][3].type = "writableSignalUnsubscribe"

\* The kinds under which the registry holds an endpoint of the name.
KindsOf(interface, endpointName) ==
  {kind \in {"rpc", "channel", "signal"} :
     endpointName \in DOMAIN (CASE kind = "rpc" -> interface.rpcEndpoints
                                [] kind = "channel" -> interface.channelEndpoints
                                [] kind = "signal" -> interface.signalEndpoints)}

\* The add operation failed and left the registry as it was.
AddFailed ==
  /\ last' = "threw"
  /\ UNCHANGED backendInterface

\* C17: after any sequence of add-endpoint operations every name belongs to
\* at most one endpoint over all kinds, and adding an endpoint of any kind
\* under a name registered under any kind fails and leaves the registry
\* unchanged.
C17_NamesUnique ==
  [][/\ \A name \in RegistryNames :
          Cardinality(KindsOf(backendInterface', name)) <= 1
     /\ \A name \in RegistryNames :
          KindsOf(backendInterface, name) # {} =>
            /\ \A parameter \in Schemas, returns \in Schemas :
                 addRpcEndpoint(name, parameter, returns) => AddFailed
            /\ \A creationParameter \in Schemas, toServerPacket \in Schemas,
                  toClientPacket \in Schemas :
                 addChannelEndpoint(name, creationParameter, toServerPacket, toClientPacket)
                   => AddFailed
            /\ \A creationParameter \in Schemas, signalData \in Schemas :
                 addSignalEndpoint(name, creationParameter, signalData) => AddFailed]_vars

\* The endpoints of the three kinds the port is constructed with have been
\* added, and a further add under one of their names has failed.
C17_Witness ==
  /\ last = "threw"
  /\ backendInterface.rpcEndpoints = rpcEndpoints
  /\ backendInterface.channelEndpoints = channelEndpoints
  /\ backendInterface.signalEndpoints = signalEndpoints

\* The stack an operation keeps: the one its caller supplied, or the one
\* captured when it was invoked.
StackOf(supplied) == IF supplied = "undefined" THEN "capturedStack" ELSE supplied

\* What the user is to receive for a serialized error of an operation that
\* kept the stack.
RemoteError(serialized, stack) ==
  IF verboseErrorMessage
  THEN errorDeserializer(serialized, stack)
  ELSE [title |-> serialized, stack |-> ""]

\* The operation records the stack it keeps, with the record of its ID or
\* with the signal it returns.
StackKept ==
  /\ nextChannelId' # nextChannelId =>
       \A name \in EndpointNames, param \in Values, supplied \in SuppliedStacks :
         /\ (callRpc(name, param, supplied) /\ Completes')
              => ongoingRpcs'[nextChannelId].stack = StackOf(supplied)
         /\ (createChannel(name, param, supplied) /\ Completes')
              => openChannels'[nextChannelId].stack = StackOf(supplied)
  /\ signals' # signals =>
       \A name \in EndpointNames, param \in Values, supplied \in SuppliedStacks :
         (createSignal(name, param, supplied) /\ Completes')
           => signals'[Len(signals')].stack = StackOf(supplied)
  /\ writableSignals' # writableSignals =>
       \A name \in EndpointNames, param \in Values, supplied \in SuppliedStacks :
         (createWritableSignal(name, param, supplied) /\ Completes')
           => writableSignals'[Len(writableSignals')].stack = StackOf(supplied)
  /\ \A s \in SignalIndexes :
       /\ signalSubscribe(s)
            => openSignalSubscriptions'[nextSubscribeId].stack = signals[s].stack
       /\ writableSignalSubscribe(s)
            => openWritableSignalSubscriptions'[nextWritableSubscribeId].stack
                 = writableSignals[s].stack
  /\ \A id \in DOMAIN ongoingRpcs \cap DOMAIN ongoingRpcs' :
       ongoingRpcs'[id].stack = ongoingRpcs[id].stack
  /\ \A id \in DOMAIN openChannels \cap DOMAIN openChannels' :
       openChannels'[id].stack = openChannels[id].stack
  /\ \A id \in DOMAIN openSignalSubscriptions \cap DOMAIN openSignalSubscriptions' :
       openSignalSubscriptions'[id].stack = openSignalSubscriptions[id].stack
  /\ \A id \in DOMAIN openWritableSignalSubscriptions
                 \cap DOMAIN openWritableSignalSubscriptions' :
       openWritableSignalSubscriptions'[id].stack
         = openWritableSignalSubscriptions[id].stack
  /\ \A s \in DOMAIN signals : signals'[s].stack = signals[s].stack
  /\ \A s \in DOMAIN writableSignals : writableSignals'[s].stack = writableSignals[s].stack

\* The error frame of each of the four kinds delivers the error made from
\* the stack its operation kept.
RemoteErrorDelivered ==
  \A error \in SerializedErrors :
    /\ \A id \in DOMAIN ongoingRpcs :
         receivedRpcError(id, error)
           => promises'[id] =
                Append(promises[id],
                       SinkCall("reject", 0, RemoteError(error, ongoingRpcs[id].stack)))
    /\ \A id \in DOMAIN openChannels :
         receivedChannelError(id, error)
           => channels'[id] =
                Append(channels[id],
                       SinkCall("errored", 0, RemoteError(error, openChannels[id].stack)))
    /\ \A id \in DOMAIN openSignalSubscriptions :
         receivedSignalError(id, error)
           => LET s == openSignalSubscriptions[id].signal IN
              signals'[s].calls =
                Append(signals[s].calls,
                       SignalCall("errored", NotAvailable, <<>>,
                                  RemoteError(error, signals[s].stack)))
    /\ \A id \in DOMAIN openWritableSignalSubscriptions :
         receivedWritableSignalError(id, error)
           => LET s == openWritableSignalSubscriptions[id].signal IN
              writableSignals'[s].calls =
                Append(writableSignals[s].calls,
                       SignalCall("errored", NotAvailable, <<>>,
                                  RemoteError(error, writableSignals[s].stack)))

\* C18: for every remote error frame (rpcError, channelError, signalError,
\* writableSignalError) the error delivered to the user is the deserializer's
\* output given the stack captured when the originating operation was
\* invoked, or the stack its caller supplied, if verboseErrorMessage is set,
\* and given no stack, which the default deserializer turns into the empty
\* stack, if it is not.
C18_ErrorStackFollowsVerbose == [][StackKept /\ RemoteErrorDelivered]_vars

\* With verboseErrorMessage set, an RPC has been rejected with the stack
\* captured at the call, a channel has errored with the stack its caller
\* supplied, and a signal has errored.
C18_VerboseWitness ==
  /\ verboseErrorMessage
  /\ \E id \in DOMAIN promises :
       /\ promises[id] # <<>>
       /\ promises[id][1].sink = "reject"
       /\ promises[id][1].error.stack = "capturedStack"
  /\ \E id \in DOMAIN channels :
       /\ channels[id] # <<>>
       /\ channels[id][1].sink = "errored"
       /\ channels[id][1].error.stack = "callerStack"

\* With verboseErrorMessage not set, a signal and a writable signal created
\* with a caller's stack have errored with the empty stack.
C18_Witness ==
  /\ ~verboseErrorMessage
  /\ \E s \in DOMAIN signals :
       /\ signals[s].stack = "callerStack"
       /\ signals[s].calls # <<>>
       /\ signals[s].calls[1].sink = "errored"
       /\ signals[s].calls[1].error.stack = ""
  /\ \E s \in DOMAIN writableSignals :
       /\ writableSignals[s].stack = "callerStack"
       /\ writableSignals[s].calls # <<>>
       /\ writableSignals[s].calls[1].sink = "errored"
       /\ writableSignals[s].calls[1].error.stack = ""

\* The calls a sink has received are kept, in their order, and at most one is
\* added, at the end.
Extended(before, after) ==
  /\ Len(after) \in {Len(before), Len(before) + 1}
  /\ SubSeq(after, 1, Len(before)) = before

\* The sink has received one more call, of the kind, after all it had.
DeliveredLast(before, after, sink) ==
  /\ after # <<>>
  /\ after[Len(after)].sink = sink
  /\ SubSeq(after, 1, Len(after) - 1) = before

\* No step changes the order of what a channel or a signal has received.
OrderKept ==
  /\ \A id \in DOMAIN channels :
       id \in DOMAIN channels' /\ Extended(channels[id], channels'[id])
  /\ \A s \in DOMAIN signals : Extended(signals[s].calls, signals'[s].calls)
  /\ \A s \in DOMAIN writableSignals :
       Extended(writableSignals[s].calls, writableSignals'[s].calls)

\* A frame the port accepts has reached the sink of its ID when its handler
\* returns.
NotDeferred ==
  /\ \A id \in DOMAIN openChannels :
       /\ \A message \in Values :
            (receivedChannelSend(id, message) /\ Completes')
              => DeliveredLast(channels[id], channels'[id], "receivedMessage")
       /\ \A ackId \in AckIds :
            receivedChannelAck(id, ackId)
              => DeliveredLast(channels[id], channels'[id], "receivedAck")
       /\ receivedChannelClose(id)
            => DeliveredLast(channels[id], channels'[id], "closed")
       /\ \A error \in SerializedErrors :
            receivedChannelError(id, error)
              => DeliveredLast(channels[id], channels'[id], "errored")
  /\ \A id \in DOMAIN openSignalSubscriptions :
       LET s == openSignalSubscriptions[id].signal IN
       /\ \A update \in UpdateFrames :
            (receivedSignalUpdate(id, update.patches, update.tags) /\ Completes')
              => DeliveredLast(signals[s].calls, signals'[s].calls, "setValue")
       /\ \A error \in SerializedErrors :
            receivedSignalError(id, error)
              => DeliveredLast(signals[s].calls, signals'[s].calls, "errored")
  /\ \A id \in DOMAIN openWritableSignalSubscriptions :
       LET s == openWritableSignalSubscriptions[id].signal IN
       /\ \A update \in UpdateFrames :
            (receivedWritableSignalUpdate(id, update.patches, update.tags) /\ Completes')
              => DeliveredLast(writableSignals[s].calls, writableSignals'[s].calls,
                               "setValue")
       /\ \A error \in SerializedErrors :
            receivedWritableSignalError(id, error)
              => DeliveredLast(writableSignals[s].calls, writableSignals'[s].calls,
                               "errored")

\* C19: for any single channel or signal subscription the inbound frames
\* addressed to its ID are delivered to its sinks in the order in which the
\* transport handed them to the port; the port never reorders or defers
\* frames of one ID.
C19_DeliveredInArrivalOrder == [][OrderKept /\ NotDeferred]_vars

\* A channel has received a message, then an ack, then its close.
C19_Witness ==
  \E id \in DOMAIN channels :
    /\ Len(channels[id]) = 3
    /\ channels[id][1].sink = "receivedMessage"
    /\ channels[id][2].sink = "receivedAck"
    /\ channels[id][3].sink = "closed"

\* No frame of the server has ended the call or the channel that received
\* the calls: they are rejections and errors of the transport, if any.
NotTerminated(calls) ==
  \A i \in 1 .. Len(calls) :
    /\ calls[i].sink \in {"reject", "errored"}
    /\ calls[i].error.title \in TransportErrors

\* The record of every call and channel no frame has ended is in its table.
LiveIdsInstalled ==
  /\ \A id \in DOMAIN promises : NotTerminated(promises[id]) => id \in DOMAIN ongoingRpcs
  /\ \A id \in DOMAIN channels : NotTerminated(channels[id]) => id \in DOMAIN openChannels

\* The first observer's attaching installs the record of the subscription,
\* and only the error frame of its ID removes it.
SubscriptionInstalled ==
  /\ \A s \in SignalIndexes :
       signalSubscribe(s)
         => /\ nextSubscribeId \in DOMAIN openSignalSubscriptions'
            /\ openSignalSubscriptions'[nextSubscribeId].signal = s
  /\ \A id \in DOMAIN openSignalSubscriptions \ DOMAIN openSignalSubscriptions' :
       \E error \in SerializedErrors : receivedSignalError(id, error)

\* A frame dropped as unknown is not a frame for an ID in the table of its
\* kind.
FoundWhenInstalled ==
  last' = "unknown" =>
    /\ \A id \in DOMAIN ongoingRpcs :
         /\ \A result \in Values : ~receivedRpcResult(id, result)
         /\ \A error \in SerializedErrors : ~receivedRpcError(id, error)
    /\ \A id \in DOMAIN openChannels :
         /\ ~receivedChannelClose(id)
         /\ \A error \in SerializedErrors : ~receivedChannelError(id, error)
    /\ \A id \in DOMAIN openSignalSubscriptions :
         \A error \in SerializedErrors : ~receivedSignalError(id, error)

\* C20: once callRpc or createChannel has returned, or the first observer of
\* a signal has attached, an inbound frame for the ID just allocated finds
\* the record in its table: in no interleaving of operations and frames is a
\* frame for an allocated ID that no frame has ended treated as unknown.
C20_AllocatedIdIsKnown ==
  [][LiveIdsInstalled' /\ SubscriptionInstalled /\ FoundWhenInstalled]_vars

\* After a frame for an ID not yet allocated was dropped, a call and a
\* subscription were made, and the frame that answers the call has found its
\* record while the subscription is open.
C20_Witness ==
  /\ producedCommunicationWarningsCount = 1
  /\ 0 \in DOMAIN promises
  /\ promises[0] # <<>>
  /\ promises[0][1].sink = "resolve"
  /\ 0 \in DOMAIN openSignalSubscriptions
  /\ last = "ok"

\* C21: a transport error leaves every signal and writable signal
\* subscription untouched: their records stay in the tables, their error
\* sinks are not called and no unsubscribe frame is sent.
C21_TransportErrorSparesSignals ==
  [][\/ UNCHANGED <<openSignalSubscriptions, openWritableSignalSubscriptions,
                    signals, writableSignals, sent>>
     \/ \A error \in TransportErrors : ~errored(error)]_vars

\* A transport error has rejected a call while a signal subscription was in
\* its table, and the signal has been told nothing.
C21_Witness ==
  /\ \E id \in DOMAIN promises :
       /\ promises[id] # <<>>
       /\ promises[id][1].error.title \in TransportErrors
  /\ \E id \in DOMAIN openSignalSubscriptions :
       signals[openSignalSubscriptions[id].signal].calls = <<>>

\* No frame given to the transport is a keepAlive frame.
NoKeepAliveSent ==
  \A space \in DOMAIN sent : Frames(space, "keepAlive") = {}

\* C22: inbound keepAliveAck and inbound communicationWarning frames leave
\* all port state unchanged (tables, ID counters, open-count, warning
\* counter) and cause no outbound frame; the port never sends a keepAlive
\* frame under any sequence of operations.
C22_AckAndWarningIgnored ==
  [][/\ (receivedKeepAliveAck \/ receivedCommunicationWarning)
          => UNCHANGED <<tables, counters, openCommunicationsCount,
                         producedCommunicationWarningsCount, sent, sentWarnings,
                         edges, observers>>
     /\ NoKeepAliveSent']_vars

\* A keepAliveAck or a communicationWarning has arrived while a call and a
\* subscription were open.
C22_Witness ==
  /\ last = "ignored"
  /\ ongoingRpcs # EmptyMap
  /\ openSignalSubscriptions # EmptyMap
  /\ openCommunicationsCount = 2

\* The tags an optional tag list contributes.
TagsOf(option) == IF option = Absent THEN <<>> ELSE option[1]

\* update has been called once more, with the tags.
CalledOnceWith(tags) ==
  /\ Len(updateCalls') = Len(updateCalls) + 1
  /\ SubSeq(updateCalls', 1, Len(updateCalls)) = updateCalls
  /\ updateCalls'[Len(updateCalls')].tags = tags

\* C23: every setter flavour (plain set, withUpdater, withImmer, withPatches)
\* calls the primitive update exactly once, with a tag list equal to the tags
\* returned by the prepend-tags source followed by the tags passed by the
\* caller, in that order; a source that is absent contributes nothing, so
\* the list is empty when both are absent.
C23_TagsConcatenated ==
  [][\A prependTags \in PrependTagOptions, tags \in TagOptions :
       LET expected == TagsOf(prependTags) \o TagsOf(tags) IN
       /\ \A value \in SetValues :
            /\ makeSetter_set(prependTags, value, tags) => CalledOnceWith(expected)
            /\ makeSetterWithPatches_set(prependTags, value, tags)
                 => CalledOnceWith(expected)
       /\ \A producer \in SetterProducers :
            /\ makeSetter_withImmer(prependTags, producer, tags)
                 => CalledOnceWith(expected)
            /\ makeSetterWithPatches_withImmer(prependTags, producer, tags)
                 => CalledOnceWith(expected)
       /\ \A updater \in Updaters :
            /\ makeSetter_withUpdater(prependTags, updater, tags)
                 => CalledOnceWith(expected)
            /\ makeSetterWithPatches_withUpdater(prependTags, updater, tags)
                 => CalledOnceWith(expected)
       /\ \A patches \in SetterPatchLists :
            /\ makeSetter_withPatches(prependTags, patches, tags)
                 => CalledOnceWith(expected)
            /\ makeSetterWithPatches_withPatches(prependTags, patches, tags)
                 => CalledOnceWith(expected)]_vars

\* A setter with a prependTagsFn has been called with tags of the caller's,
\* and update got the prepended tags followed by the caller's.
C23_Witness ==
  /\ updateCalls # <<>>
  /\ updateCalls[1].made = "makeSetterWithPatches"
  /\ updateCalls[1].flavour = "withImmer"
  /\ updateCalls[1].tags = <<"first", "second", "tag">>

\* A setter without a prependTagsFn has been called without tags, and update
\* got the empty list.
C23_WitnessBothAbsent ==
  /\ updateCalls # <<>>
  /\ updateCalls[1].made = "makeSetter"
  /\ updateCalls[1].tags = <<>>

\* The updater of the call returned a pair whose patches, applied to the old
\* value, yield its new value.
PatchesYieldNewData(call) ==
  ~call.result.threw =>
    LET applied == applyPatches(call.oldData, call.result.patches) IN
    /\ ~applied.threw
    /\ applied.value = call.result.newData

\* The patches the flavour is to return.
PatchesOfFlavour(call) ==
  CASE call.flavour \in {"set", "withUpdater"} ->
         call.result.patches = <<RootPatch(call.result.newData.n)>>
    [] call.flavour = "withPatches" -> call.result.patches \in SetterPatchLists
    [] call.flavour = "withImmer" -> TRUE

\* C24: for every flavour of the patch-producing setter and every old value,
\* the updater handed to update returns a pair (newData, patches) such that
\* applying patches to the old value yields newData: plain set and
\* withUpdater return a single root replacement {op: replace, path: [],
\* value: newData}, withPatches returns the caller's patch list unchanged,
\* and the producer flavour returns the patches recorded while running the
\* producer.
C24_PatchesReproduceNewData ==
  \A i \in 1 .. Len(updateCalls) :
    updateCalls[i].made \in {"makeSetterWithPatches", "makeSetter.ts"} =>
      /\ PatchesYieldNewData(updateCalls[i])
      /\ PatchesOfFlavour(updateCalls[i])
      /\ updateCalls[i].flavour \in {"set", "withUpdater"} => ~updateCalls[i].result.threw

\* withUpdater has replaced a document by another and returned the root
\* replacement by the new one.
C24_Witness ==
  \E i \in 1 .. Len(updateCalls) :
    /\ updateCalls[i].made = "makeSetterWithPatches"
    /\ updateCalls[i].flavour = "withUpdater"
    /\ updateCalls[i].oldData = Document(2)
    /\ updateCalls[i].result.newData = Document(0)
    /\ updateCalls[i].result.patches = <<RootPatch(0)>>

\* How many of the calls are of one of the sinks.
CallsOfSinks(calls, sinks) ==
  Cardinality({i \in 1 .. Len(calls) : calls[i].sink \in sinks})

\* C25: every in-flight record reaches its terminal transition at most once:
\* over any interleaving of inbound frames and transport errors, the resolver
\* or rejector of an RPC is invoked at most once in total, and the close and
\* error sinks of a channel are invoked at most once in total; a channel
\* errored by a transport error is not closed or errored again by a later
\* channelClose or channelError frame.
C25_TerminalAtMostOnce ==
  /\ \A id \in DOMAIN promises : CallsOfSinks(promises[id], {"resolve", "reject"}) <= 1
  /\ \A id \in DOMAIN channels : CallsOfSinks(channels[id], {"closed", "errored"}) <= 1

\* C26: in callRpc the record is inserted and the open-count bumped before
\* the rpcCall frame is emitted: when a callRpc takes the open-count from 0
\* to 1, the transport receives onHavingOneOrMoreOpenCommunication before it
\* receives the rpcCall frame to send.
C26_EdgeBeforeRpcCall ==
  [][\A name \in EndpointNames, param \in Values, stack \in StackOptions :
       (callRpc(name, param, stack) /\ Completes' /\ openCommunicationsCount = 0)
         => /\ edges' = Append(edges, "onHavingOneOrMoreOpenCommunication")
            /\ sentBeforeEdge'[Len(sentBeforeEdge')] < TotalSent']_vars

\* The channelSend frame at position i follows the channelCreate frame of its
\* channelId, and its message passes toServerPacket of that frame's endpoint.
SendFollowsCreate(i) ==
  LET frame == sent["channel"][i] IN
  \E j \in Frames("channel", "channelCreate") :
    /\ j < i
    /\ sent["channel"][j].id = frame.id
    /\ safeParse(getChannelEndpoint(sent["channel"][j].endpoint).toServerPacket,
                 frame.value).success

\* C27: every outbound channelSend frame carries the channelId allocated by
\* the createChannel that produced the channel and a message that passes the
\* endpoint's toServerPacket schema, and is sent after that channel's
\* channelCreate frame; a send whose packet fails the schema raises to the
\* caller and emits no frame.
C27_ChannelSendValidated ==
  [][/\ \A i \in Frames("channel", "channelSend")' : SendFollowsCreate(i)'
     /\ \A id \in DOMAIN channels, packet \in Values :
          (/\ channelSend(id, packet)
           /\ ~safeParse(ChannelEndpointOf(id).toServerPacket, packet).success)
            => last' = "threw" /\ UNCHANGED sent]_vars

\* After a call with ID 0, the channel with ID 1 has sent a packet, and a
\* second packet, which its schema rejects, has raised.
C27_Witness ==
  /\ last = "threw"
  /\ Len(sent["channel"]) = 3
  /\ sent["channel"][1].type = "rpcCall"
  /\ sent["channel"][2].type = "channelCreate"
  /\ sent["channel"][3].type = "channelSend"
  /\ sent["channel"][3].id = 1

\* C28: every writableSignalUpdate frame the port sends carries the
\* subscribeId of the most recent writableSignalSubscribe frame sent for
\* that signal, and that subscribeId is present in the writable-subscription
\* table when the frame is sent; in particular no writableSignalUpdate is
\* sent for a subscribeId whose record was removed by a writableSignalError.
C28_UpdateForOpenSubscription ==
  [][\A s \in SignalIndexes, write \in Writes :
       (writeUpstream(s, write.patches, write.tags) /\ Completes')
         => LET frame == sent'["writableSignal"][Len(sent'["writableSignal"])] IN
            /\ frame.type = "writableSignalUpdate"
            /\ frame.id = writableSignals[s].subscribeId
            /\ frame.id \in DOMAIN openWritableSignalSubscriptions]_vars

\* The port has sent the unsubscribe frame of the kind for the subscribeId.
Unsubscribed(space, type, subscribeId) ==
  \E i \in Frames(space, type) : sent[space][i].id = subscribeId

\* C29: after the port has sent signalUnsubscribe (or
\* writableSignalUnsubscribe) for a subscribeId, an inbound signalUpdate (or
\* writableSignalUpdate) carrying that subscribeId is treated as referencing
\* an unknown ID: it produces a communication warning and delivers no value
\* to the signal's listener.
C29_UpdateAfterUnsubscribeUnknown ==
  [][\A id \in InboundIds, update \in LateUpdates :
       /\ (/\ Unsubscribed("signal", "signalUnsubscribe", id)
           /\ receivedSignalUpdate(id, update.patches, update.tags))
            => last' = "unknown" /\ UNCHANGED signals
       /\ (/\ Unsubscribed("writableSignal", "writableSignalUnsubscribe", id)
           /\ receivedWritableSignalUpdate(id, update.patches, update.tags))
            => last' = "unknown" /\ UNCHANGED writableSignals]_vars

\* The frame was handled as one for an unknown ID, and no record or sink of
\* any kind was touched.
ForeignIdUnknown ==
  /\ last' = "unknown"
  /\ UNCHANGED <<tables, openCommunicationsCount, observers>>

\* C30: an inbound frame only ever affects the table of its own kind: a
\* channel frame whose channelId equals the callId of an in-flight RPC, an
\* RPC frame whose callId equals an open channel's ID, or a signal frame
\* whose subscribeId equals the numeric ID of an RPC, channel or
\* writable-signal subscription (and vice versa) leaves those other records
\* untouched and is handled as an unknown ID.
C30_FrameAffectsOwnKindOnly ==
  [][\A id \in IdsInUse :
       /\ receivedChannelClose(id)
            => /\ UNCHANGED <<ongoingRpcs, openSignalSubscriptions,
                              openWritableSignalSubscriptions, promises, signals,
                              writableSignals>>
               /\ id \notin DOMAIN openChannels => ForeignIdUnknown
       /\ \A result \in Values :
            receivedRpcResult(id, result)
              => /\ UNCHANGED <<openChannels, openSignalSubscriptions,
                                openWritableSignalSubscriptions, channels, signals,
                                writableSignals>>
                 /\ id \notin DOMAIN ongoingRpcs => ForeignIdUnknown
       /\ \A update \in LateUpdates :
            /\ receivedSignalUpdate(id, update.patches, update.tags)
                 => /\ UNCHANGED <<openChannels, ongoingRpcs,
                                   openWritableSignalSubscriptions, promises, channels,
                                   writableSignals>>
                    /\ id \notin DOMAIN openSignalSubscriptions => ForeignIdUnknown
            /\ receivedWritableSignalUpdate(id, update.patches, update.tags)
                 => /\ UNCHANGED <<openChannels, ongoingRpcs, openSignalSubscriptions,
                                   promises, channels, signals>>
                    /\ id \notin DOMAIN openWritableSignalSubscriptions
                         => ForeignIdUnknown]_vars

\* A frame of another kind for the ID of the one call in flight has been
\* dropped, and the call is still in flight and unsettled.
C30_Witness ==
  /\ last = "unknown"
  /\ DOMAIN ongoingRpcs = {0}
  /\ promises[0] = <<>>
  /\ openChannels = EmptyMap
  /\ openSignalSubscriptions = EmptyMap
  /\ openWritableSignalSubscriptions = EmptyMap

\* The suppression line is printed once the fifth warning frame has been
\* sent, and not before or again.
SuppressedOnce ==
  /\ loggerCalls.error = Len(suppressedAfter)
  /\ suppressedAfter = IF sentWarnings >= MaxCommunicationWarnings
                       THEN <<MaxCommunicationWarnings>> ELSE <<>>

\* C31: the local warnings-suppressed log line is printed exactly once in
\* the port's lifetime, after the fifth outbound communicationWarning frame
\* has been sent, and no local warning log line is printed for any sanity
\* failure after the fifth.
C31_SuppressedLineOnce ==
  /\ []SuppressedOnce
  /\ [][/\ loggerCalls'.error # loggerCalls.error
             => /\ sentWarnings = MaxCommunicationWarnings - 1
                /\ sentWarnings' = MaxCommunicationWarnings
                /\ IsDropped'
        /\ producedCommunicationWarningsCount >= MaxCommunicationWarnings
             => UNCHANGED <<loggerCalls, suppressedAfter>>
        /\ loggerCalls'.warn <= MaxCommunicationWarnings]_vars

\* The suppression line has been printed once, after the fifth warning
\* frame, and a frame for an unknown ID was dropped with an RPC in flight.
C31_Witness ==
  /\ suppressedAfter = <<MaxCommunicationWarnings>>
  /\ loggerCalls.error = 1
  /\ loggerCalls.warn = MaxCommunicationWarnings
  /\ last = "unknown"
  /\ DOMAIN ongoingRpcs # {}

\* The endpoints of a kind in the registry.
EndpointsOf(interface, kind) ==
  CASE kind = "rpc" -> interface.rpcEndpoints
    [] kind = "channel" -> interface.channelEndpoints
    [] kind = "signal" -> interface.signalEndpoints

\* Some registered endpoint has no handler.
SomeUnhandled(interface) ==
  \E kind \in {"rpc", "channel", "signal"} :
    \E name \in DOMAIN EndpointsOf(interface, kind) :
      EndpointsOf(interface, kind)[name].handler = null

\* The outcome of attaching the handler to the endpoint of the kind: it is
\* attached when the endpoint is registered for the kind and has no handler;
\* otherwise the call fails and the registry stays as it was.
Attached(kind, name, handler) ==
  IF /\ name \in DOMAIN EndpointsOf(backendInterface, kind)
     /\ EndpointsOf(backendInterface, kind)[name].handler = null
  THEN /\ last' = "ok"
       /\ EndpointsOf(backendInterface', kind)[name].handler = handler
       /\ \A otherKind \in {"rpc", "channel", "signal"} :
            \A other \in DOMAIN EndpointsOf(backendInterface, otherKind) :
              <<otherKind, other>> # <<kind, name>> =>
                EndpointsOf(backendInterface', otherKind)[other]
                  = EndpointsOf(backendInterface, otherKind)[other]
  ELSE /\ last' = "threw"
       /\ UNCHANGED backendInterface

\* The handle operations attach a handler only to a registered endpoint of
\* their kind that has none.
HandlersAttachOnce ==
  \A name \in RegistryNames, handler \in Handlers :
    /\ handleRpcEndpoint(name, handler) => Attached("rpc", name, handler)
    /\ handleChannelEndpoint(name, handler) => Attached("channel", name, handler)
    /\ handleSignalEndpoint(name, handler) => Attached("signal", name, handler)

\* C32: on the registry, a handler can be attached to an endpoint only if
\* the endpoint is registered for that kind and has no handler yet (otherwise
\* the call fails and the endpoint keeps its handler), and
\* assertAllEndpointsHandled fails exactly when some registered endpoint
\* still has no handler.
C32_HandlersAndAssertAllHandled ==
  [][/\ HandlersAttachOnce
     /\ assertAllEndpointsHandled
          => (last' = "threw" <=> SomeUnhandled(backendInterface))]_vars

====
